---- MODULE Spec2Model ----
(***************************************************************************)
(* Intent-to-enforcement reconciliation engine of the intents operator.    *)
(*                                                                         *)
(* The cluster store holds the intent objects and the derived network      *)
(* policies.  Each reconciler handles one key at a time per key; every     *)
(* call to the store (Get, List, Create, Update, Delete) is one atomic     *)
(* step, so reconciles of distinct keys interleave at store calls.         *)
(***************************************************************************)
EXTENDS Integers, Sequences, FiniteSets, TLC

\* ------------------------------------------------------------------ bounds
MaxEvents == 4       \* create / edit / delete requests of the user, and resyncs

\* --------------------------------------------------------------- constants
OtterizeNetworkPolicyNameTemplate(server, ns) == "access-to-" \o server \o "-from-" \o ns
OtterizeNetworkPolicy == "otterize/network-policy"
NetworkPolicyFinalizerName == "otterize-intents.policies/finalizer"
OtterizeServerLabelKey == "intents.otterize.com/server"
OtterizeNamespaceLabelKey == "intents.otterize.com/namespace-name"
OtterizeAccessLabelKey(id) == "intents.otterize.com/access-" \o id

\* ------------------------------------------------------------------ inputs
\* the keys of the intents objects: one object per declaring service
IntentNames == {"client-a", "client-b"}
DeclaringNamespace == "ns1"
OtherNamespace == "ns2"

IntentTypeKafka == "kafka"
IntentTypeHTTP == "http"
HttpCall(server, ns) ==
    [server |-> server, namespace |-> ns, type |-> IntentTypeHTTP, topic |-> ""]
KafkaCall(server, ns, topic) ==
    [server |-> server, namespace |-> ns, type |-> IntentTypeKafka, topic |-> topic]

\* The Calls lists a user may declare: no call, one call, the same server
\* name in another target namespace, and two calls.
CallLists ==
    { <<>>,
      <<HttpCall("server", "")>>,
      <<HttpCall("server", OtherNamespace)>>,
      <<HttpCall("server", ""), HttpCall("db", "")>> }

\* intents.Spec is a pointer: nil, or a spec with its Calls
NilSpec == [nil |-> TRUE, calls |-> <<>>]
Specs == {NilSpec} \cup {[nil |-> FALSE, calls |-> c] : c \in CallLists}

\* the store holds no object under the name
NoIntent == [absent |-> TRUE]

VARIABLES
    intents,      \* store: intent objects by name, or NoIntent
    policies,     \* store: the network policy objects
    events,       \* change notifications issued so far
    np,           \* Network Policy Reconciler: the running reconcile of each key
    npResult,     \* what the last finished reconcile of each key returned
    npSynced,     \* no reconcile of the key is pending
    deletedTogether, \* history: two intents naming one server were terminating at once
    kafkaServers,            \* KafkaServersStore: the configured brokers
    enforcementDefaultState, \* cluster-wide default of the enforcement
    enableKafkaACLCreation,  \* flag handed to the admin sessions
    operatorPod,             \* namespace and annotated identity of the operator's pod
    protectedServices,       \* store: the ProtectedService declarations
    acls,                    \* broker side: the ACL entries of each broker
    sessions,                \* broker side: the admin sessions open on each broker
    kaTraced,                \* whether the history kaTrace is kept
    kaTrace,                 \* history: what the last finished Kafka reconcile of each key did
    ka,                      \* Kafka ACL Reconciler: the running reconcile of each key
    kaResult,                \* what the last finished reconcile of each key returned
    kaSynced,                \* no change notification of the key is queued
    pods,                    \* store: the pods by name
    pl,                      \* Pod Label Reconciler: the reconcile of each key
    psObjects,               \* store: the ProtectedService objects as the webhook lists them
    admission,               \* ProtectedServiceValidator: the answer to the last request
    identityArgs,            \* the (name, namespace) pairs handed to the identity naming
    identityOut              \* the identities it returned for them

kaConfig == <<kafkaServers, enforcementDefaultState, enableKafkaACLCreation, operatorPod>>
kaVars == <<kaConfig, protectedServices, acls, sessions, kaTraced, kaTrace, ka, kaResult>>
npOwnVars == <<policies, np, npResult, npSynced, deletedTogether>>
plVars == <<pods, pl>>
auxVars == <<psObjects, admission, identityArgs, identityOut>>
vars == <<intents, policies, events, np, npResult, npSynced, deletedTogether,
          kaConfig, protectedServices, acls, sessions, kaTraced, kaTrace, ka, kaResult,
          kaSynced, plVars, auxVars>>

\* ------------------------------------------------------------- intent object
NewIntent(spec) ==
    [namespace |-> DeclaringNamespace, spec |-> spec, deleting |-> FALSE, finalizers |-> {}]

GetCallsList(obj) == IF obj.spec.nil THEN <<>> ELSE obj.spec.calls

\* intent.Namespace == "" is replaced by the namespace of the intents object
TargetNamespace(call, objNamespace) ==
    IF call.namespace = "" THEN objNamespace ELSE call.namespace

\* The store removes an object that is being deleted once no finalizer is left.
Stored(obj) == IF obj.deleting /\ obj.finalizers = {} THEN NoIntent ELSE obj

\* index OtterizeTargetServerIndexField: the servers an intents object calls
TargetServerIndex(obj) == {GetCallsList(obj)[k].server : k \in DOMAIN GetCallsList(obj)}

\* r.List(MatchingFields{index: server}, ListOptions{Namespace: ns})
ListIntents(server, ns) ==
    {j \in IntentNames : /\ intents[j] # NoIntent
                         /\ intents[j].namespace = ns
                         /\ server \in TargetServerIndex(intents[j])}

\* ------------------------------------------------------------ network policy
\* the identity of the short names of the runs: name and namespace joined; the
\* digest that follows them is a function of the same two and is left out here
\* (FormattedOtterizeIdentity below has the truncation and the digest)
GetFormattedOtterizeIdentity(name, ns) == name \o "-" \o ns

PolicyKey(call, objNamespace) ==
    [name |-> OtterizeNetworkPolicyNameTemplate(call.server, objNamespace),
     namespace |-> TargetNamespace(call, objNamespace)]

\* buildNetworkPolicyObjectForIntent as it would be if the identity of the
\* target were formed with the namespace of the intents object
buildNetworkPolicyObjectForIntent_IdentityOfDeclaringNamespace(call, objNamespace) ==
    LET ns == TargetNamespace(call, objNamespace)
        formattedTargetServer == GetFormattedOtterizeIdentity(call.server, objNamespace)
    IN [name |-> OtterizeNetworkPolicyNameTemplate(call.server, objNamespace),
        namespace |-> ns,
        labels |-> {<<OtterizeNetworkPolicy, "true">>},
        podSelector |-> {<<OtterizeServerLabelKey, formattedTargetServer>>},
        ingressFromPods |-> {<<OtterizeAccessLabelKey(formattedTargetServer), "true">>},
        ingressFromNamespaces |-> {<<OtterizeNamespaceLabelKey, objNamespace>>}]

buildNetworkPolicyObjectForIntent(call, objNamespace) ==
    LET ns == TargetNamespace(call, objNamespace)
        formattedTargetServer == GetFormattedOtterizeIdentity(call.server, ns)
    IN [name |-> OtterizeNetworkPolicyNameTemplate(call.server, objNamespace),
        namespace |-> ns,
        labels |-> {<<OtterizeNetworkPolicy, "true">>},
        podSelector |-> {<<OtterizeServerLabelKey, formattedTargetServer>>},
        ingressFromPods |-> {<<OtterizeAccessLabelKey(formattedTargetServer), "true">>},
        ingressFromNamespaces |-> {<<OtterizeNamespaceLabelKey, objNamespace>>}]

KeyOf(p) == [name |-> p.name, namespace |-> p.namespace]

PolicyExists(key) == \E p \in policies : KeyOf(p) = key

\* ------------------------------------------------------- reconcile bookkeeping
IdleWorker ==
    [pc |-> "idle", obj |-> NoIntent, fresh |-> FALSE, idx |-> 0, err |-> "nil",
     addedFinalizer |-> FALSE, teardownFailed |-> FALSE]

NoResult == [requeue |-> FALSE, err |-> "nil"]

CurrentCall(w) == GetCallsList(w.obj)[w.idx]

Goto(i, w) ==
    /\ np' = [np EXCEPT ![i] = w]
    /\ UNCHANGED <<npResult, npSynced>>

\* The reconcile of key i returns (ctrl.Result{Requeue: requeue}, err).  The key
\* stays pending unless the reconcile succeeded on the current object.
Return(i, w, requeue, err) ==
    /\ np' = [np EXCEPT ![i] = IdleWorker]
    /\ npResult' = [npResult EXCEPT ![i] = [requeue |-> requeue, err |-> err]]
    /\ npSynced' = [npSynced EXCEPT ![i] =
            /\ err = "nil"
            /\ ~requeue
            /\ (w.fresh \/ intents'[i] = NoIntent)]

\* a change of the stored intents object i queues its key for every reconciler
Notify(i) ==
    kaSynced' = IF intents'[i] # intents[i]
                THEN [kaSynced EXCEPT ![i] = FALSE]
                ELSE kaSynced

\* ------------------------------------------------------------ broker side
NamespacedName(name, ns) == [name |-> name, namespace |-> ns]

Brokers == {NamespacedName("kafka-1", DeclaringNamespace),
            NamespacedName("kafka-2", DeclaringNamespace)}

OperatorNamespace == "otterize-system"
OperatorIdentity == "intents-operator"

\* no admin session is open
NoSession == [open |-> FALSE]

\* history of one reconcile: the events it recorded on the intents object, the
\* calls that failed, and the brokers on which ApplyClientIntents or
\* RemoveClientIntents was invoked
NoTrace == [events |-> {}, faults |-> {}, invoked |-> {}]

KaIdleWorker ==
    [pc |-> "idle", obj |-> NoIntent, mode |-> "none", todo |-> {},
     cur |-> NamespacedName("", ""), shouldCreatePolicy |-> FALSE,
     session |-> NoSession, err |-> "nil", trace |-> NoTrace]

KaNoResult == [err |-> "nil"]

\* history of one reconcile of the Pod Label Reconciler: the pods it patched,
\* the labels a patch removed, the events it recorded in their order, the
\* calls that failed, and whether it runs again on an object it had reconciled
PlNoTrace ==
    [patched |-> {}, removed |-> {}, events |-> <<>>, faults |-> {}, again |-> FALSE]

\* last: the object the last finished reconcile read, and what it returned
PlIdleWorker ==
    [pc |-> "idle", obj |-> NoIntent, listed |-> [p \in {} |-> NoIntent], todo |-> {},
     last |-> [obj |-> NoIntent, err |-> "nil"], dirty |-> FALSE, trace |-> PlNoTrace]

\* a cluster without pods
NoPods == [p \in {} |-> NoIntent]

\* no request has reached the admission webhook
NoAdmission == [op |-> "none"]
NoWebhook == psObjects = {} /\ admission = NoAdmission

\* the identity naming has not been called
NoNaming == identityArgs = <<>> /\ identityOut = <<>>

\* the state right after the operator started on an empty cluster
InitCluster ==
    /\ pods = NoPods
    /\ pl = [i \in IntentNames |-> PlIdleWorker]
    /\ intents = [i \in IntentNames |-> NoIntent]
    /\ policies = {}
    /\ events = 0
    /\ np = [i \in IntentNames |-> IdleWorker]
    /\ npResult = [i \in IntentNames |-> NoResult]
    /\ npSynced = [i \in IntentNames |-> TRUE]
    /\ deletedTogether = FALSE
    /\ protectedServices = {}
    /\ acls = [b \in Brokers |-> {}]
    /\ sessions = [b \in Brokers |-> 0]
    /\ kaTrace = [i \in IntentNames |-> NoTrace]
    /\ ka = [i \in IntentNames |-> KaIdleWorker]
    /\ kaResult = [i \in IntentNames |-> KaNoResult]
    /\ kaSynced = [i \in IntentNames |-> TRUE]

\* no broker is configured: only the Network Policy Reconciler has work
Init ==
    /\ InitCluster
    /\ NoWebhook /\ NoNaming
    /\ kafkaServers = {}
    /\ enforcementDefaultState = TRUE
    /\ enableKafkaACLCreation = TRUE
    /\ operatorPod = [namespace |-> OperatorNamespace, identity |-> OperatorIdentity]
    /\ kaTraced = FALSE

\* ------------------------------------------------------------------ the user
\* kubectl apply of a new intents object
CreateIntent(i, spec) ==
    /\ events < MaxEvents
    /\ intents[i] = NoIntent
    /\ intents' = [intents EXCEPT ![i] = NewIntent(spec)]
    /\ events' = events + 1
    /\ np' = [np EXCEPT ![i].fresh = FALSE]
    /\ npSynced' = [npSynced EXCEPT ![i] = FALSE]
    /\ deletedTogether' = FALSE
    /\ UNCHANGED <<policies, npResult>>
    /\ Notify(i)
    /\ UNCHANGED <<kaVars, plVars, auxVars>>

\* kubectl apply of a changed Calls list
EditIntent(i, spec) ==
    /\ events < MaxEvents
    /\ intents[i] # NoIntent
    /\ intents[i].spec # spec
    /\ intents' = [intents EXCEPT ![i].spec = spec]
    /\ events' = events + 1
    /\ np' = [np EXCEPT ![i].fresh = FALSE]
    /\ npSynced' = [npSynced EXCEPT ![i] = FALSE]
    /\ deletedTogether' = FALSE
    /\ UNCHANGED <<policies, npResult>>
    /\ Notify(i)
    /\ UNCHANGED <<kaVars, plVars, auxVars>>

\* kubectl delete: the removal timestamp is set; an object without finalizers
\* is removed at once
DeleteIntent(i) ==
    /\ events < MaxEvents
    /\ intents[i] # NoIntent
    /\ ~intents[i].deleting
    /\ intents' = [intents EXCEPT ![i] = Stored([intents[i] EXCEPT !.deleting = TRUE])]
    /\ events' = events + 1
    /\ np' = [np EXCEPT ![i].fresh = FALSE]
    /\ npSynced' = [npSynced EXCEPT ![i] = FALSE]
    /\ deletedTogether' =
         (\/ deletedTogether
          \/ \E j \in IntentNames \ {i} :
                /\ intents'[i] # NoIntent
                /\ intents[j] # NoIntent
                /\ intents[j].deleting
                /\ TargetServerIndex(intents[i]) \cap TargetServerIndex(intents[j]) # {})
    /\ UNCHANGED <<policies, npResult>>
    /\ Notify(i)
    /\ UNCHANGED <<kaVars, plVars, auxVars>>

\* the periodic resync of the change-notification layer: the key is queued
\* although nothing changed
Resync(i) ==
    /\ events < MaxEvents
    /\ npSynced[i]
    /\ events' = events + 1
    /\ npSynced' = [npSynced EXCEPT ![i] = FALSE]
    /\ UNCHANGED <<intents, policies, np, npResult, deletedTogether>>
    /\ Notify(i)
    /\ UNCHANGED <<kaVars, plVars, auxVars>>

\* --------------------------------------------------- Network Policy Reconciler
\* the loop over GetCallsList of the Active branch
ContinueCreation(i, w) ==
    IF w.idx < Len(GetCallsList(w.obj))
    THEN Goto(i, [w EXCEPT !.idx = @ + 1, !.pc = "policyGet"])
    ELSE Return(i, w, FALSE, "nil")

\* the loop over GetCallsList of cleanFinalizerAndPolicies
ContinueCleanup(i, w) ==
    IF w.idx < Len(GetCallsList(w.obj))
    THEN Goto(i, [w EXCEPT !.idx = @ + 1, !.pc = "list"])
    ELSE Goto(i, [w EXCEPT !.pc = "removeFinalizer"])

\* Reconcile as it would be if the deletion timestamp were not looked at
Reconcile_IgnoresDeletion(i) ==
    /\ np[i].pc = "idle"
    /\ ~npSynced[i]
    /\ UNCHANGED <<intents, policies, events, deletedTogether>>
    /\ \E getFails \in BOOLEAN :
        IF getFails
        THEN Return(i, IdleWorker, FALSE, "other")
        ELSE IF intents[i] = NoIntent
        THEN Return(i, IdleWorker, FALSE, "nil")
        ELSE LET w == [IdleWorker EXCEPT !.obj = intents[i], !.fresh = TRUE] IN
             IF w.obj.spec.nil
             THEN Return(i, w, FALSE, "nil")
             ELSE IF NetworkPolicyFinalizerName \notin w.obj.finalizers
             THEN Goto(i, [w EXCEPT !.pc = "addFinalizer"])
             ELSE ContinueCreation(i, w)
    /\ Notify(i)
    /\ UNCHANGED <<kaVars, plVars, auxVars>>

\* Reconcile up to its first store call after r.Get
Reconcile(i) ==
    /\ np[i].pc = "idle"
    /\ ~npSynced[i]
    /\ UNCHANGED <<intents, policies, events, deletedTogether>>
    /\ \E getFails \in BOOLEAN :
        IF getFails
        THEN Return(i, IdleWorker, FALSE, "other")
        ELSE IF intents[i] = NoIntent
        THEN Return(i, IdleWorker, FALSE, "nil")
        ELSE LET w == [IdleWorker EXCEPT !.obj = intents[i], !.fresh = TRUE] IN
             IF w.obj.spec.nil
             THEN Return(i, w, FALSE, "nil")
             ELSE IF w.obj.deleting
             THEN IF NetworkPolicyFinalizerName \in w.obj.finalizers
                  THEN ContinueCleanup(i, w)
                  ELSE Return(i, w, FALSE, "nil")
             ELSE IF NetworkPolicyFinalizerName \notin w.obj.finalizers
             THEN Goto(i, [w EXCEPT !.pc = "addFinalizer"])
             ELSE ContinueCreation(i, w)
    /\ Notify(i)
    /\ UNCHANGED <<kaVars, plVars, auxVars>>

\* r.Update: refused with a conflict when the object changed since it was read
UpdateOutcomes(i, w) ==
    IF intents[i] = NoIntent THEN {"other"}
    ELSE IF ~w.fresh THEN {"conflict", "other"}
    ELSE {"nil", "other"}

\* AddFinalizer as it would be if the error of r.Update were not returned
AddFinalizer_IgnoresUpdateError(i) ==
    /\ np[i].pc = "addFinalizer"
    /\ UNCHANGED <<policies, events, deletedTogether>>
    /\ \E err \in UpdateOutcomes(i, np[i]) :
        IF err # "nil"
        THEN /\ UNCHANGED intents
             /\ ContinueCreation(i, np[i])
        ELSE LET obj == [np[i].obj EXCEPT !.finalizers = @ \cup {NetworkPolicyFinalizerName}]
                 w == [np[i] EXCEPT !.obj = obj, !.addedFinalizer = TRUE]
             IN /\ intents' = [intents EXCEPT ![i] = Stored(obj)]
                /\ ContinueCreation(i, w)
    /\ Notify(i)
    /\ UNCHANGED <<kaVars, plVars, auxVars>>

\* controllerutil.AddFinalizer; r.Update
AddFinalizer(i) ==
    /\ np[i].pc = "addFinalizer"
    /\ UNCHANGED <<policies, events, deletedTogether>>
    /\ \E err \in UpdateOutcomes(i, np[i]) :
        IF err # "nil"
        THEN /\ UNCHANGED intents
             /\ Return(i, np[i], FALSE, err)
        ELSE LET obj == [np[i].obj EXCEPT !.finalizers = @ \cup {NetworkPolicyFinalizerName}]
                 w == [np[i] EXCEPT !.obj = obj, !.addedFinalizer = TRUE]
             IN /\ intents' = [intents EXCEPT ![i] = Stored(obj)]
                /\ ContinueCreation(i, w)
    /\ Notify(i)
    /\ UNCHANGED <<kaVars, plVars, auxVars>>

\* PolicyGet as it would be if a policy that was found were created again
PolicyGet_AlwaysCreates(i) ==
    /\ np[i].pc = "policyGet"
    /\ UNCHANGED <<intents, policies, events, deletedTogether>>
    /\ \E getFails \in BOOLEAN :
        IF getFails
        THEN Return(i, [np[i] EXCEPT !.err = "other"], FALSE, "other")
        ELSE Goto(i, [np[i] EXCEPT !.err = "notfound", !.pc = "policyCreate"])
    /\ Notify(i)
    /\ UNCHANGED <<kaVars, plVars, auxVars>>

\* handleNetworkPolicyCreation: r.Get of the policy
PolicyGet(i) ==
    /\ np[i].pc = "policyGet"
    /\ UNCHANGED <<intents, policies, events, deletedTogether>>
    /\ \E getFails \in BOOLEAN :
        IF getFails
        THEN Return(i, [np[i] EXCEPT !.err = "other"], FALSE, "other")
        ELSE IF PolicyExists(PolicyKey(CurrentCall(np[i]), np[i].obj.namespace))
        THEN ContinueCreation(i, [np[i] EXCEPT !.err = "nil"])
        ELSE Goto(i, [np[i] EXCEPT !.err = "notfound", !.pc = "policyCreate"])
    /\ Notify(i)
    /\ UNCHANGED <<kaVars, plVars, auxVars>>

\* handleNetworkPolicyCreation: r.Create of the policy
PolicyCreate(i) ==
    /\ np[i].pc = "policyCreate"
    /\ UNCHANGED <<intents, events, deletedTogether>>
    /\ LET policy == buildNetworkPolicyObjectForIntent(CurrentCall(np[i]), np[i].obj.namespace) IN
       \E createFails \in BOOLEAN :
        IF createFails \/ PolicyExists(KeyOf(policy))
        THEN /\ UNCHANGED policies
             /\ Return(i, [np[i] EXCEPT !.err = "other"], FALSE, "other")
        ELSE /\ policies' = policies \cup {policy}
             /\ ContinueCreation(i, [np[i] EXCEPT !.err = "nil"])
    /\ Notify(i)
    /\ UNCHANGED <<kaVars, plVars, auxVars>>

\* cleanFinalizerAndPolicies: r.List of the intents that target the server
ListReferences(i) ==
    /\ np[i].pc = "list"
    /\ UNCHANGED <<intents, policies, events, deletedTogether>>
    /\ \E listFails \in BOOLEAN :
        IF listFails
        THEN Return(i, np[i], FALSE, "other")
        ELSE IF Cardinality(ListIntents(CurrentCall(np[i]).server, np[i].obj.namespace)) = 1
        THEN Goto(i, [np[i] EXCEPT !.pc = "removeGet"])
        ELSE ContinueCleanup(i, np[i])
    /\ Notify(i)
    /\ UNCHANGED <<kaVars, plVars, auxVars>>

\* RemoveGet as it would be if not-found were returned like any other error
RemoveGet_NotFoundIsError(i) ==
    /\ np[i].pc = "removeGet"
    /\ UNCHANGED <<intents, policies, events, deletedTogether>>
    /\ \E getFails \in BOOLEAN :
        IF getFails
        THEN Goto(i, [np[i] EXCEPT !.err = "other", !.teardownFailed = TRUE,
                                   !.pc = "removeDelete"])
        ELSE IF PolicyExists(PolicyKey(CurrentCall(np[i]), np[i].obj.namespace))
        THEN Goto(i, [np[i] EXCEPT !.err = "nil", !.pc = "removeDelete"])
        ELSE Return(i, [np[i] EXCEPT !.err = "notfound"], FALSE, "other")
    /\ Notify(i)
    /\ UNCHANGED <<kaVars, plVars, auxVars>>

\* removeNetworkPolicy: r.Get of the policy
RemoveGet(i) ==
    /\ np[i].pc = "removeGet"
    /\ UNCHANGED <<intents, policies, events, deletedTogether>>
    /\ \E getFails \in BOOLEAN :
        IF getFails
        THEN Goto(i, [np[i] EXCEPT !.err = "other", !.teardownFailed = TRUE,
                                   !.pc = "removeDelete"])
        ELSE IF PolicyExists(PolicyKey(CurrentCall(np[i]), np[i].obj.namespace))
        THEN Goto(i, [np[i] EXCEPT !.err = "nil", !.pc = "removeDelete"])
        ELSE ContinueCleanup(i, [np[i] EXCEPT !.err = "notfound"])
    /\ Notify(i)
    /\ UNCHANGED <<kaVars, plVars, auxVars>>

\* removeNetworkPolicy: r.Delete of the policy read by r.Get; when r.Get failed
\* the policy object is empty and the delete fails.  The error of r.Delete is
\* dropped.
RemoveDelete(i) ==
    /\ np[i].pc = "removeDelete"
    /\ UNCHANGED <<intents, events, deletedTogether>>
    /\ LET key == PolicyKey(CurrentCall(np[i]), np[i].obj.namespace) IN
       \E deleteFails \in BOOLEAN :
        IF np[i].err = "other" \/ ~PolicyExists(key)
        THEN /\ UNCHANGED policies
             /\ ContinueCleanup(i, np[i])
        ELSE IF deleteFails
        THEN /\ UNCHANGED policies
             /\ ContinueCleanup(i, [np[i] EXCEPT !.teardownFailed = TRUE])
        ELSE /\ policies' = {p \in policies : KeyOf(p) # key}
             /\ ContinueCleanup(i, np[i])
    /\ Notify(i)
    /\ UNCHANGED <<kaVars, plVars, auxVars>>

\* cleanFinalizerAndPolicies: controllerutil.RemoveFinalizer; r.Update; and
\* Reconcile's handling of the error
RemoveFinalizer(i) ==
    /\ np[i].pc = "removeFinalizer"
    /\ UNCHANGED <<policies, events, deletedTogether>>
    /\ \E err \in UpdateOutcomes(i, np[i]) :
        IF err = "conflict"
        THEN /\ UNCHANGED intents
             /\ Return(i, np[i], TRUE, "nil")
        ELSE IF err # "nil"
        THEN /\ UNCHANGED intents
             /\ Return(i, np[i], FALSE, err)
        ELSE LET obj == [np[i].obj EXCEPT !.finalizers = @ \ {NetworkPolicyFinalizerName}] IN
             /\ intents' = [intents EXCEPT ![i] = Stored(obj)]
             /\ Return(i, [np[i] EXCEPT !.obj = obj], FALSE, "nil")
    /\ Notify(i)
    /\ UNCHANGED <<kaVars, plVars, auxVars>>

UserNext ==
    \/ \E i \in IntentNames, spec \in Specs : CreateIntent(i, spec)
    \/ \E i \in IntentNames, spec \in Specs : EditIntent(i, spec)
    \/ \E i \in IntentNames : DeleteIntent(i)
    \/ \E i \in IntentNames : Resync(i)

ReconcileNext(i) ==
    \/ Reconcile(i)
    \/ AddFinalizer(i)
    \/ PolicyGet(i)
    \/ PolicyCreate(i)
    \/ ListReferences(i)
    \/ RemoveGet(i)
    \/ RemoveDelete(i)
    \/ RemoveFinalizer(i)

Next ==
    \/ UserNext
    \/ \E i \in IntentNames : ReconcileNext(i)

Spec == Init /\ [][Next]_vars

\* ------------------------------------------------ one request at a time
\* no reconcile is running or pending
Quiescent == \A i \in IntentNames : np[i].pc = "idle" /\ npSynced[i]

\* the intents all name the target service "server" in their own namespace
ServerSpec == [nil |-> FALSE, calls |-> <<HttpCall("server", "")>>]

\* The user applies or deletes an intents object only after the reconciles of
\* the previous request have completed.
SeqNext ==
    \/ Quiescent /\ \E i \in IntentNames : CreateIntent(i, ServerSpec)
    \/ Quiescent /\ \E i \in IntentNames : DeleteIntent(i)
    \/ \E i \in IntentNames : ReconcileNext(i)

SpecSeq == Init /\ [][SeqNext]_vars

\* ------------------------------------------------------- Kafka ACL Reconciler
ReasonCouldNotConnectToKafkaServer == "CouldNotConnectToKafkaServer"
ReasonCouldNotApplyIntentsOnKafkaServer == "CouldNotApplyIntentsOnKafkaServer"
ReasonKafkaACLCreationDisabled == "KafkaACLCreationDisabled"
ReasonKafkaServerNotConfigured == "KafkaServerNotConfigured"
ReasonRemovingKafkaACLsFailed == "RemovingKafkaACLsFailed"
ReasonApplyingKafkaACLsFailed == "ApplyingKafkaACLsFailed"
ReasonAppliedKafkaACLs == "AppliedKafkaACLs"
ReasonIntentsOperatorIdentityResolveFailed == "IntentsOperatorIdentityResolveFailed"
ReasonEnforcementDefaultOff == "EnforcementDefaultOff"

\* RecordWarningEvent / RecordNormalEvent on the intents object
WarningEvent(reason) == [type |-> "Warning", reason |-> reason]
NormalEvent(reason) == [type |-> "Normal", reason |-> reason]

\* a call of the reconcile that returned an error: the kind of the call and the
\* server it was about
Fault(kind, serverName) == [kind |-> kind, server |-> serverName]

NoServer == NamespacedName("", "")

\* the worker with its history extended
Logged(w, evs, faults, invoked) ==
    IF kaTraced
    THEN [w EXCEPT !.trace = [events |-> @.events \cup evs,
                              faults |-> @.faults \cup faults,
                              invoked |-> @.invoked \cup invoked]]
    ELSE w

\* the declaring service of the intents object stored under key i
ServiceName(i) == i

ServerNameOf(call, defaultNamespace) ==
    NamespacedName(call.server, TargetNamespace(call, defaultNamespace))

\* getIntentsByServer as it would be if every call were keyed by the declaring
\* namespace, whatever target namespace it names
getIntentsByServer_IgnoresTargetNamespace(defaultNamespace, calls) ==
    LET kafkaCalls == SelectSeq(calls, LAMBDA c : c.type = IntentTypeKafka)
        names == {NamespacedName(kafkaCalls[k].server, defaultNamespace) :
                    k \in DOMAIN kafkaCalls}
    IN [sn \in names |-> SelectSeq(kafkaCalls, LAMBDA c : c.server = sn.name)]

getIntentsByServer(defaultNamespace, calls) ==
    LET kafkaCalls == SelectSeq(calls, LAMBDA c : c.type = IntentTypeKafka)
        names == {ServerNameOf(kafkaCalls[k], defaultNamespace) : k \in DOMAIN kafkaCalls}
    IN [sn \in names |->
            SelectSeq(kafkaCalls, LAMBDA c : ServerNameOf(c, defaultNamespace) = sn)]

\* IntentsForServer as it would be if every server were handed the calls of
\* one group, whichever server they name
IntentsForServer_IgnoresServer(intentsByServer, serverName) ==
    IF DOMAIN intentsByServer = {}
    THEN <<>>
    ELSE intentsByServer[CHOOSE sn \in DOMAIN intentsByServer : TRUE]

\* intentsByServer[serverName]: nil for a server no call names
IntentsForServer(intentsByServer, serverName) ==
    IF serverName \in DOMAIN intentsByServer THEN intentsByServer[serverName] ELSE <<>>

\* protected_services.IsServerEnforcementEnabledDueToProtectionOrDefaultState
IsServerEnforcementEnabledDueToProtectionOrDefaultState(serverName, defaultState) ==
    serverName \in protectedServices \/ defaultState

\* the ACL entries the calls ask for
AclsOf(service, calls) ==
    {[principal |-> service, topic |-> calls[k].topic] : k \in DOMAIN calls}

\* admin session: grants are created only when creation is enabled and the
\* enforcement is active; entries no call asks for are always removed
ApplyClientIntents(existing, session, service, calls) ==
    LET mine == {a \in existing : a.principal = service}
        wanted == AclsOf(service, calls)
    IN (existing \ mine) \cup
       (IF session.creationEnabled /\ session.enforcementActive
        THEN wanted
        ELSE mine \cap wanted)

\* admin session: every entry of the principal is removed
RemoveClientIntents(existing, service) ==
    {a \in existing : a.principal # service}

KaGoto(i, w, queued) ==
    /\ ka' = [ka EXCEPT ![i] = w]
    /\ kaSynced' = queued
    /\ UNCHANGED <<kaResult, kaTrace>>

\* the reconcile of key i returns (ctrl.Result{}, err); an error queues the key again
KaReturn(i, w, err, queued) ==
    /\ ka' = [ka EXCEPT ![i] = KaIdleWorker]
    /\ kaResult' = [kaResult EXCEPT ![i] = [err |-> err]]
    /\ kaTrace' = [kaTrace EXCEPT ![i] = w.trace]
    /\ kaSynced' = IF err # "nil" THEN [queued EXCEPT ![i] = FALSE] ELSE queued

\* FinishMapErr as it would be if the error of MapErr were dropped
FinishMapErr_SwallowsError(i, w, queued) ==
    KaReturn(i, w, "nil", queued)

\* FinishMapErr as it would be if a call naming a server without configuration
\* failed the reconcile
FinishMapErr_UnconfiguredIsError(i, w, queued) ==
    LET intentsByServer == getIntentsByServer(w.obj.namespace, GetCallsList(w.obj))
        disabled == IF enableKafkaACLCreation
                    THEN {} ELSE {NormalEvent(ReasonKafkaACLCreationDisabled)}
        applied == IF DOMAIN intentsByServer # {}
                   THEN {NormalEvent(ReasonAppliedKafkaACLs)} ELSE {}
    IN IF w.err # "nil"
       THEN KaReturn(i, Logged(w, {WarningEvent(IF w.mode = "remove"
                                                THEN ReasonRemovingKafkaACLsFailed
                                                ELSE ReasonApplyingKafkaACLsFailed)},
                               {}, {}),
                     w.err, queued)
       ELSE IF w.mode = "remove"
       THEN KaReturn(i, w, "nil", queued)
       ELSE IF ~(DOMAIN intentsByServer \subseteq kafkaServers)
       THEN KaReturn(i, Logged(w, {WarningEvent(ReasonKafkaServerNotConfigured)}, {}, {}),
                     "other", queued)
       ELSE KaReturn(i, Logged(w, disabled \cup applied, {}, {}), "nil", queued)

\* MapErr has called the function for every server.  handleIntentsDeletion and
\* applyAcls record the failure and return it; after a successful pass applyACLs
\* records that the creation is disabled and the servers that are not
\* configured, and applyAcls that brokers were reconciled.
FinishMapErr(i, w, queued) ==
    IF w.err # "nil"
    THEN KaReturn(i, Logged(w, {WarningEvent(IF w.mode = "remove"
                                             THEN ReasonRemovingKafkaACLsFailed
                                             ELSE ReasonApplyingKafkaACLsFailed)},
                            {}, {}),
                  w.err, queued)
    ELSE IF w.mode = "remove"
    THEN KaReturn(i, w, "nil", queued)
    ELSE LET intentsByServer == getIntentsByServer(w.obj.namespace, GetCallsList(w.obj))
             disabled == IF enableKafkaACLCreation
                         THEN {} ELSE {NormalEvent(ReasonKafkaACLCreationDisabled)}
             missing == IF DOMAIN intentsByServer \subseteq kafkaServers
                        THEN {} ELSE {WarningEvent(ReasonKafkaServerNotConfigured)}
             applied == IF DOMAIN intentsByServer # {}
                        THEN {NormalEvent(ReasonAppliedKafkaACLs)} ELSE {}
         IN KaReturn(i, Logged(w, disabled \cup missing \cup applied, {}, {}), "nil", queued)

\* KafkaServersStore.MapErr: the function is called for each configured server
StartMapErr(i, w, queued) ==
    IF kafkaServers = {}
    THEN FinishMapErr(i, w, queued)
    ELSE KaGoto(i, [w EXCEPT !.todo = kafkaServers, !.pc = "enforcement"], queued)

\* the function MapErr calls has returned err for server w.cur; MapErr goes on
\* with the next server and returns the first error
NextServer(i, w, err) ==
    LET w2 == [w EXCEPT !.todo = @ \ {w.cur}, !.session = NoSession,
                        !.err = IF @ = "nil" THEN err ELSE @]
    IN IF w2.todo = {}
       THEN FinishMapErr(i, w2, kaSynced)
       ELSE KaGoto(i, [w2 EXCEPT !.pc = "enforcement"], kaSynced)

\* what a step of the reconciler leaves alone besides the broker side
kaFrame ==
    <<intents, events, protectedServices, kaConfig, kaTraced, npOwnVars, plVars, auxVars>>

\* KafkaACLReconciler.Reconcile up to its first call after r.client.Get
KafkaReconcile(i) ==
    /\ ka[i].pc = "idle"
    /\ ~kaSynced[i]
    /\ UNCHANGED <<kaFrame, acls, sessions>>
    /\ LET queued == [kaSynced EXCEPT ![i] = TRUE] IN
       \E getFails \in BOOLEAN :
        IF getFails
        THEN KaReturn(i, Logged(KaIdleWorker, {}, {Fault("get", NoServer)}, {}),
                      "other", queued)
        ELSE IF intents[i] = NoIntent
        THEN KaReturn(i, KaIdleWorker, "nil", queued)
        ELSE LET w == [KaIdleWorker EXCEPT !.obj = intents[i]] IN
             IF w.obj.spec.nil
             THEN KaReturn(i, w, "nil", queued)
             ELSE IF w.obj.deleting
             THEN StartMapErr(i, [w EXCEPT !.mode = "remove"], queued)
             ELSE IF operatorPod.namespace # w.obj.namespace
             THEN StartMapErr(i, [w EXCEPT !.mode = "apply"], queued)
             ELSE KaGoto(i, [w EXCEPT !.pc = "resolve"], queued)

\* KafkaResolveOperator as it would be if the operator's own intents were
\* handled like any other
KafkaResolveOperator_NoSelfExclusion(i) ==
    /\ ka[i].pc = "resolve"
    /\ UNCHANGED <<kaFrame, acls, sessions>>
    /\ \E outcome \in {"error", "notAnnotated", "ok"} :
        IF outcome = "error"
        THEN KaReturn(i, Logged(ka[i], {}, {Fault("resolve", NoServer)}, {}),
                      "other", kaSynced)
        ELSE IF outcome = "notAnnotated"
        THEN KaReturn(i, Logged(ka[i],
                                {WarningEvent(ReasonIntentsOperatorIdentityResolveFailed)},
                                {Fault("resolve", NoServer)}, {}),
                      "other", kaSynced)
        ELSE StartMapErr(i, [ka[i] EXCEPT !.mode = "apply"], kaSynced)

\* isIntentsForTheIntentsOperator: serviceResolver.GetPodAnnotatedName.  Only
\* the missing annotation is recorded as an event.
KafkaResolveOperator(i) ==
    /\ ka[i].pc = "resolve"
    /\ UNCHANGED <<kaFrame, acls, sessions>>
    /\ \E outcome \in {"error", "notAnnotated", "ok"} :
        IF outcome = "error"
        THEN KaReturn(i, Logged(ka[i], {}, {Fault("resolve", NoServer)}, {}),
                      "other", kaSynced)
        ELSE IF outcome = "notAnnotated"
        THEN KaReturn(i, Logged(ka[i],
                                {WarningEvent(ReasonIntentsOperatorIdentityResolveFailed)},
                                {Fault("resolve", NoServer)}, {}),
                      "other", kaSynced)
        ELSE IF operatorPod.identity = ServiceName(i)
        THEN KaReturn(i, ka[i], "nil", kaSynced)
        ELSE StartMapErr(i, [ka[i] EXCEPT !.mode = "apply"], kaSynced)

\* KafkaEnforcement as it would be if a server whose enforcement is off were
\* skipped
KafkaEnforcement_SkipsUnenforced(i) ==
    /\ ka[i].pc = "enforcement"
    /\ UNCHANGED <<kaFrame, acls, sessions>>
    /\ \E serverName \in ka[i].todo, queryFails \in BOOLEAN :
        LET w == [ka[i] EXCEPT !.cur = serverName] IN
        IF queryFails
        THEN NextServer(i, Logged(w, {}, {Fault("query", serverName)}, {}), "other")
        ELSE LET shouldCreatePolicy ==
                    IsServerEnforcementEnabledDueToProtectionOrDefaultState(
                        serverName, enforcementDefaultState)
             IN IF ~shouldCreatePolicy
                THEN NextServer(i, w, "nil")
                ELSE KaGoto(i, [w EXCEPT !.shouldCreatePolicy = TRUE, !.pc = "open"],
                            kaSynced)

\* KafkaEnforcement as it would be if a failed enforcement query were taken
\* for the decision false
KafkaEnforcement_IgnoresQueryError(i) ==
    /\ ka[i].pc = "enforcement"
    /\ UNCHANGED <<kaFrame, acls, sessions>>
    /\ \E serverName \in ka[i].todo, queryFails \in BOOLEAN :
        LET w == [ka[i] EXCEPT !.cur = serverName]
            shouldCreatePolicy ==
                /\ ~queryFails
                /\ IsServerEnforcementEnabledDueToProtectionOrDefaultState(
                        serverName, enforcementDefaultState)
            failed == IF queryFails THEN {Fault("query", serverName)} ELSE {}
        IN KaGoto(i, [Logged(w, {}, failed, {}) EXCEPT
                         !.shouldCreatePolicy = shouldCreatePolicy,
                         !.pc = "open"], kaSynced)

\* applyACLs / RemoveACLs: the enforcement query for one configured server;
\* applyACLs records that the enforcement is off
KafkaEnforcement(i) ==
    /\ ka[i].pc = "enforcement"
    /\ UNCHANGED <<kaFrame, acls, sessions>>
    /\ \E serverName \in ka[i].todo, queryFails \in BOOLEAN :
        LET w == [ka[i] EXCEPT !.cur = serverName] IN
        IF queryFails
        THEN NextServer(i, Logged(w, {}, {Fault("query", serverName)}, {}), "other")
        ELSE LET shouldCreatePolicy ==
                    IsServerEnforcementEnabledDueToProtectionOrDefaultState(
                        serverName, enforcementDefaultState)
                 off == IF ~shouldCreatePolicy /\ w.mode = "apply"
                        THEN {NormalEvent(ReasonEnforcementDefaultOff)} ELSE {}
             IN KaGoto(i, [Logged(w, off, {}, {}) EXCEPT
                              !.shouldCreatePolicy = shouldCreatePolicy,
                              !.pc = "open"], kaSynced)

\* KafkaOpen as it would be if the session were always opened with the
\* enforcement active
KafkaOpen_AlwaysEnforced(i) ==
    /\ ka[i].pc = "open"
    /\ UNCHANGED <<kaFrame, acls>>
    /\ \E connectFails \in BOOLEAN :
        IF connectFails
        THEN /\ UNCHANGED sessions
             /\ NextServer(i, Logged(ka[i],
                    IF ka[i].mode = "apply"
                    THEN {WarningEvent(ReasonCouldNotConnectToKafkaServer)} ELSE {},
                    {Fault("connect", ka[i].cur)}, {}), "other")
        ELSE /\ sessions' = [sessions EXCEPT ![ka[i].cur] = @ + 1]
             /\ KaGoto(i, [ka[i] EXCEPT
                    !.session = [open |-> TRUE,
                                 creationEnabled |-> enableKafkaACLCreation,
                                 enforcementActive |-> TRUE],
                    !.pc = "call"], kaSynced)

\* KafkaOpen as it would be if a failed connection were not an error
KafkaOpen_IgnoresConnectError(i) ==
    /\ ka[i].pc = "open"
    /\ UNCHANGED <<kaFrame, acls>>
    /\ \E connectFails \in BOOLEAN :
        IF connectFails
        THEN /\ UNCHANGED sessions
             /\ NextServer(i, Logged(ka[i], {}, {Fault("connect", ka[i].cur)}, {}), "nil")
        ELSE /\ sessions' = [sessions EXCEPT ![ka[i].cur] = @ + 1]
             /\ KaGoto(i, [ka[i] EXCEPT
                    !.session = [open |-> TRUE,
                                 creationEnabled |-> enableKafkaACLCreation,
                                 enforcementActive |-> ka[i].shouldCreatePolicy],
                    !.pc = "call"], kaSynced)

\* applyACLs / RemoveACLs: r.getNewKafkaIntentsAdmin; applyACLs records the
\* failed connection
KafkaOpen(i) ==
    /\ ka[i].pc = "open"
    /\ UNCHANGED <<kaFrame, acls>>
    /\ \E connectFails \in BOOLEAN :
        IF connectFails
        THEN /\ UNCHANGED sessions
             /\ NextServer(i, Logged(ka[i],
                    IF ka[i].mode = "apply"
                    THEN {WarningEvent(ReasonCouldNotConnectToKafkaServer)} ELSE {},
                    {Fault("connect", ka[i].cur)}, {}), "other")
        ELSE /\ sessions' = [sessions EXCEPT ![ka[i].cur] = @ + 1]
             /\ KaGoto(i, [ka[i] EXCEPT
                    !.session = [open |-> TRUE,
                                 creationEnabled |-> enableKafkaACLCreation,
                                 enforcementActive |-> ka[i].shouldCreatePolicy],
                    !.pc = "call"], kaSynced)

\* KafkaApply as it would be if the session were closed only after a
\* successful ApplyClientIntents
KafkaApply_LeaksSessionOnError(i) ==
    /\ ka[i].pc = "call"
    /\ ka[i].mode = "apply"
    /\ UNCHANGED kaFrame
    /\ LET intentsByServer == getIntentsByServer(ka[i].obj.namespace, GetCallsList(ka[i].obj))
           intentsForServer == IntentsForServer(intentsByServer, ka[i].cur)
       IN \E applyFails \in BOOLEAN :
            IF applyFails
            THEN /\ UNCHANGED <<acls, sessions>>
                 /\ NextServer(i, Logged(ka[i],
                        {WarningEvent(ReasonCouldNotApplyIntentsOnKafkaServer)},
                        {Fault("apply", ka[i].cur)}, {ka[i].cur}), "other")
            ELSE /\ acls' = [acls EXCEPT ![ka[i].cur] =
                        ApplyClientIntents(@, ka[i].session, ServiceName(i), intentsForServer)]
                 /\ sessions' = [sessions EXCEPT ![ka[i].cur] = @ - 1]
                 /\ NextServer(i, Logged(ka[i], {}, {}, {ka[i].cur}), "nil")

\* applyACLs: kafkaIntentsAdmin.ApplyClientIntents and the deferred Close
KafkaApply(i) ==
    /\ ka[i].pc = "call"
    /\ ka[i].mode = "apply"
    /\ UNCHANGED kaFrame
    /\ sessions' = [sessions EXCEPT ![ka[i].cur] = @ - 1]
    /\ LET intentsByServer == getIntentsByServer(ka[i].obj.namespace, GetCallsList(ka[i].obj))
           intentsForServer == IntentsForServer(intentsByServer, ka[i].cur)
       IN \E applyFails \in BOOLEAN :
            IF applyFails
            THEN /\ UNCHANGED acls
                 /\ NextServer(i, Logged(ka[i],
                        {WarningEvent(ReasonCouldNotApplyIntentsOnKafkaServer)},
                        {Fault("apply", ka[i].cur)}, {ka[i].cur}), "other")
            ELSE /\ acls' = [acls EXCEPT ![ka[i].cur] =
                        ApplyClientIntents(@, ka[i].session, ServiceName(i), intentsForServer)]
                 /\ NextServer(i, Logged(ka[i], {}, {}, {ka[i].cur}), "nil")

\* RemoveACLs: kafkaIntentsAdmin.RemoveClientIntents and the deferred Close
KafkaRemove(i) ==
    /\ ka[i].pc = "call"
    /\ ka[i].mode = "remove"
    /\ UNCHANGED kaFrame
    /\ sessions' = [sessions EXCEPT ![ka[i].cur] = @ - 1]
    /\ \E removeFails \in BOOLEAN :
        IF removeFails
        THEN /\ UNCHANGED acls
             /\ NextServer(i, Logged(ka[i], {}, {Fault("remove", ka[i].cur)}, {ka[i].cur}),
                           "other")
        ELSE /\ acls' = [acls EXCEPT ![ka[i].cur] = RemoveClientIntents(@, ServiceName(i))]
             /\ NextServer(i, Logged(ka[i], {}, {}, {ka[i].cur}), "nil")

\* the user declares a service protected, or withdraws the declaration
ProtectService(serverName) ==
    /\ serverName \notin protectedServices
    /\ protectedServices' = protectedServices \cup {serverName}
    /\ UNCHANGED <<intents, events, kaConfig, kaTraced, npOwnVars, plVars, auxVars,
                   acls, sessions, kaTrace, ka, kaResult, kaSynced>>

UnprotectService(serverName) ==
    /\ serverName \in protectedServices
    /\ protectedServices' = protectedServices \ {serverName}
    /\ UNCHANGED <<intents, events, kaConfig, kaTraced, npOwnVars, plVars, auxVars,
                   acls, sessions, kaTrace, ka, kaResult, kaSynced>>

KafkaReconcileNext(i) ==
    \/ KafkaReconcile(i)
    \/ KafkaResolveOperator(i)
    \/ KafkaEnforcement(i)
    \/ KafkaOpen(i)
    \/ KafkaApply(i)
    \/ KafkaRemove(i)

\* ------------------------------------------------ the reconcilers together
\* one declaring service whose Calls name brokers
KafkaClients == {"client-a"}

KafkaSpecs ==
    {[nil |-> FALSE, calls |-> c] : c \in
        { <<KafkaCall("kafka-1", "", "orders"), KafkaCall("kafka-2", "", "orders")>> }}

\* the services the user declares protected, or not
ProtectableServers == {NamespacedName("kafka-1", DeclaringNamespace)}

\* both brokers are configured and the operator runs in the namespace of the
\* intents; the enforcement is on or off by default
InitLifecycle ==
    /\ InitCluster
    /\ NoWebhook /\ NoNaming
    /\ kafkaServers = Brokers
    /\ enforcementDefaultState \in BOOLEAN
    /\ enableKafkaACLCreation = TRUE
    /\ operatorPod = [namespace |-> DeclaringNamespace, identity |-> OperatorIdentity]
    /\ kaTraced = FALSE

LifecycleNext ==
    \/ \E i \in KafkaClients, spec \in KafkaSpecs : CreateIntent(i, spec)
    \/ \E i \in KafkaClients : DeleteIntent(i)
    \/ \E serverName \in ProtectableServers : ProtectService(serverName)
    \/ \E serverName \in ProtectableServers : UnprotectService(serverName)
    \/ \E i \in KafkaClients : ReconcileNext(i)
    \/ \E i \in KafkaClients : KafkaReconcileNext(i)

SpecLifecycle == InitLifecycle /\ [][LifecycleNext]_vars

\* --------------------------------------- the Kafka ACL Reconciler on its own
\* the Calls of the intents object the reconciler finds: one broker, both
\* brokers, and no broker at all
KafkaCallLists ==
    { <<KafkaCall("kafka-1", "", "orders")>>,
      <<KafkaCall("kafka-1", "", "orders"), KafkaCall("kafka-2", "", "orders")>>,
      <<HttpCall("server", "")>> }

\* the intents object is Active, or Terminating and still held by a finalizer
KafkaObjects ==
    {[NewIntent([nil |-> FALSE, calls |-> c]) EXCEPT
            !.deleting = d,
            !.finalizers = IF d THEN {NetworkPolicyFinalizerName} ELSE {}] :
        c \in KafkaCallLists, d \in BOOLEAN}

\* The reconciler starts on a stored intents object of client-a whose key is
\* queued; the configuration, the protection and the entries an earlier
\* reconcile left on kafka-1 vary.  The history of each reconcile is kept.
InitKafka ==
    /\ \E obj \in KafkaObjects :
            intents = [i \in IntentNames |-> IF i \in KafkaClients THEN obj ELSE NoIntent]
    /\ policies = {}
    /\ events = 0
    /\ np = [i \in IntentNames |-> IdleWorker]
    /\ npResult = [i \in IntentNames |-> NoResult]
    /\ npSynced = [i \in IntentNames |-> TRUE]
    /\ deletedTogether = FALSE
    /\ kafkaServers \in {{}, {NamespacedName("kafka-1", DeclaringNamespace)}, Brokers}
    /\ enforcementDefaultState \in BOOLEAN
    /\ enableKafkaACLCreation \in BOOLEAN
    /\ operatorPod \in
        {[namespace |-> OperatorNamespace, identity |-> OperatorIdentity],
         [namespace |-> DeclaringNamespace, identity |-> OperatorIdentity],
         [namespace |-> DeclaringNamespace, identity |-> "client-a"]}
    /\ protectedServices \in SUBSET ProtectableServers
    /\ \E granted \in SUBSET {[principal |-> "client-a", topic |-> "orders"]} :
            acls = [b \in Brokers |->
                        IF b = NamespacedName("kafka-1", DeclaringNamespace)
                        THEN granted ELSE {}]
    /\ sessions = [b \in Brokers |-> 0]
    /\ kaTraced = TRUE
    /\ kaTrace = [i \in IntentNames |-> NoTrace]
    /\ ka = [i \in IntentNames |-> KaIdleWorker]
    /\ kaResult = [i \in IntentNames |-> KaNoResult]
    /\ kaSynced = [i \in IntentNames |-> i \notin KafkaClients]
    /\ pods = NoPods
    /\ NoWebhook /\ NoNaming
    /\ pl = [i \in IntentNames |-> PlIdleWorker]

KafkaNext == \E i \in KafkaClients : KafkaReconcileNext(i)

SpecKafka == InitKafka /\ [][KafkaNext]_vars

\* --------------------------------------------------------- Pod Label Reconciler
OtterizeClientLabelKey == "intents.otterize.com/client"
AllIntentsRemovedAnnotation == "intents.otterize.com/all-intents-removed"
ReasonUpdatePodFailed == "UpdatePodFailed"

\* a label or annotation key the map does not hold
Absent == "absent"

\* the services the Calls of the labelled intents name
PodTargets == {"server", "server-2"}

\* the access label of a target service
AccessLabelOf(server, ns) ==
    OtterizeAccessLabelKey(GetFormattedOtterizeIdentity(server, ns))

\* the keys with the prefix of the access labels
AccessLabelKeys == {AccessLabelOf(t, DeclaringNamespace) : t \in PodTargets}

\* a label of the pod no reconciler owns
UnrelatedLabelKey == "app"

LabelKeys ==
    {OtterizeServerLabelKey, OtterizeClientLabelKey, UnrelatedLabelKey} \cup AccessLabelKeys

\* an annotation of the pod no reconciler owns
UnrelatedAnnotationKey == "a"

AnnotationKeys == {AllIntentsRemovedAnnotation, UnrelatedAnnotationKey}

\* the pods of the declaring service, and a pod of another service
MatchingPodNames == {"test-pod", "test-pod-2"}
PodNames == MatchingPodNames \cup {"other-pod"}

\* the pod whose unrelated label somebody else changes
RelabelledPodNames == {"test-pod"}

\* the access labels the Calls of the intents object ask for
IntentsLabels(obj) ==
    {AccessLabelOf(GetCallsList(obj)[k].server,
                   TargetNamespace(GetCallsList(obj)[k], obj.namespace)) :
        k \in DOMAIN GetCallsList(obj)}

\* the pod selector of the declaring service
MatchesSelector(pod, service, ns) ==
    /\ pod.namespace = ns
    /\ pod.labels[OtterizeServerLabelKey] = GetFormattedOtterizeIdentity(service, ns)

\* UpdateOtterizeAccessLabels as it would be if the labels of the Calls were
\* added to the access labels the pod has
UpdateOtterizeAccessLabels_Unions(pod, obj, service) ==
    [pod EXCEPT !.labels = [k \in LabelKeys |->
        IF k \in IntentsLabels(obj) THEN "true"
        ELSE IF k = OtterizeClientLabelKey
        THEN GetFormattedOtterizeIdentity(service, obj.namespace)
        ELSE pod.labels[k]]]

\* the pod as the Active branch wants it: the access labels are those of the
\* Calls, the client label names the declaring service, the rest is kept
UpdateOtterizeAccessLabels(pod, obj, service) ==
    [pod EXCEPT !.labels = [k \in LabelKeys |->
        IF k \in AccessLabelKeys
        THEN (IF k \in IntentsLabels(obj) THEN "true" ELSE Absent)
        ELSE IF k = OtterizeClientLabelKey
        THEN GetFormattedOtterizeIdentity(service, obj.namespace)
        ELSE pod.labels[k]]]

\* RemoveOtterizeAccessLabels as it would be if the annotations were replaced
\* by the marker alone
RemoveOtterizeAccessLabels_ReplacesAnnotations(pod) ==
    [pod EXCEPT
        !.labels = [k \in LabelKeys |->
            IF k \in AccessLabelKeys THEN Absent ELSE pod.labels[k]],
        !.annotations = [k \in AnnotationKeys |->
            IF k = AllIntentsRemovedAnnotation THEN "true" ELSE Absent]]

\* the pod as the Terminating branch wants it: no access label, the marker
\* annotation set, the rest is kept
RemoveOtterizeAccessLabels(pod) ==
    [pod EXCEPT
        !.labels = [k \in LabelKeys |->
            IF k \in AccessLabelKeys THEN Absent ELSE pod.labels[k]],
        !.annotations = [@ EXCEPT ![AllIntentsRemovedAnnotation] = "true"]]

\* client.MergeFrom(&pod): the keys in which the updated pod differs from the
\* listed one are written to the stored pod
MergePatch(stored, listed, updated) ==
    [stored EXCEPT
        !.labels = [k \in LabelKeys |->
            IF updated.labels[k] # listed.labels[k]
            THEN updated.labels[k] ELSE stored.labels[k]],
        !.annotations = [k \in AnnotationKeys |->
            IF updated.annotations[k] # listed.annotations[k]
            THEN updated.annotations[k] ELSE stored.annotations[k]]]

PlGoto(i, w) ==
    pl' = [pl EXCEPT ![i] = w]

\* the reconcile of key i returns (ctrl.Result{}, err)
PlReturn(i, w, err) ==
    pl' = [pl EXCEPT ![i] = [PlIdleWorker EXCEPT
                !.last = [obj |-> w.obj, err |-> err], !.dirty = w.dirty,
                !.trace = w.trace]]

\* what a step of the Pod Label Reconciler leaves alone besides the pods
plFrame == <<intents, events, npOwnVars, kaVars, kaSynced, auxVars>>

\* a reconcile of key i is due: the object changed since the last reconcile
\* read it, the last reconcile returned an error, or the key was queued again
\* (a key queued while its reconcile runs is reconciled once more after it)
PlQueued(i) ==
    pl[i].dirty \/ pl[i].last # [obj |-> intents[i], err |-> "nil"]

\* the change-notification layer queues the key although nothing changed
PodResync(i) ==
    /\ pl[i].pc = "idle"
    /\ ~PlQueued(i)
    /\ intents[i] # NoIntent
    /\ pl' = [pl EXCEPT ![i].last.err = "resync"]
    /\ UNCHANGED <<plFrame, pods>>

\* PodLabelReconciler.Reconcile up to the list of the pods
PodLabelReconcile(i) ==
    /\ pl[i].pc = "idle"
    /\ PlQueued(i)
    /\ UNCHANGED <<plFrame, pods>>
    /\ LET w == [PlIdleWorker EXCEPT
                    !.obj = intents[i],
                    !.trace.again = (pl[i].last = [obj |-> intents[i], err |-> "resync"])]
       IN
       \E getFails \in BOOLEAN :
        IF getFails
        THEN PlReturn(i, [w EXCEPT !.trace.faults = {"get"}], "other")
        ELSE IF intents[i] = NoIntent
        THEN PlReturn(i, w, "nil")
        ELSE PlGoto(i, [w EXCEPT !.pc = "list"])

\* PodList as it would be if every pod of the namespace were listed
PodList_IgnoresSelector(i) ==
    /\ pl[i].pc = "list"
    /\ UNCHANGED <<plFrame, pods>>
    /\ \E listFails \in BOOLEAN :
        IF listFails
        THEN PlReturn(i, [pl[i] EXCEPT !.trace.faults = @ \cup {"list"}], "other")
        ELSE LET names == {p \in DOMAIN pods : pods[p].namespace = pl[i].obj.namespace}
             IN IF names = {}
                THEN PlReturn(i, pl[i], "nil")
                ELSE PlGoto(i, [pl[i] EXCEPT !.listed = [p \in names |-> pods[p]],
                                             !.todo = names, !.pc = "patch"])

\* r.List of the pods of the declaring namespace that match the selector of
\* the declaring service
PodList(i) ==
    /\ pl[i].pc = "list"
    /\ UNCHANGED <<plFrame, pods>>
    /\ \E listFails \in BOOLEAN :
        IF listFails
        THEN PlReturn(i, [pl[i] EXCEPT !.trace.faults = @ \cup {"list"}], "other")
        ELSE LET names == {p \in DOMAIN pods :
                            MatchesSelector(pods[p], ServiceName(i), pl[i].obj.namespace)}
             IN IF names = {}
                THEN PlReturn(i, pl[i], "nil")
                ELSE PlGoto(i, [pl[i] EXCEPT !.listed = [p \in names |-> pods[p]],
                                             !.todo = names, !.pc = "patch"])

\* the loop over the listed pods goes on with the next pod
PlNextPod(i, w, p) ==
    IF w.todo \ {p} = {}
    THEN PlReturn(i, w, "nil")
    ELSE PlGoto(i, [w EXCEPT !.todo = @ \ {p}])

\* PodPatch as it would be if a failed patch were passed over
PodPatch_IgnoresPatchError(i) ==
    /\ pl[i].pc = "patch"
    /\ UNCHANGED plFrame
    /\ \E p \in pl[i].todo :
        LET listed == pl[i].listed[p]
            updated == IF pl[i].obj.deleting
                       THEN RemoveOtterizeAccessLabels(listed)
                       ELSE UpdateOtterizeAccessLabels(listed, pl[i].obj, ServiceName(i))
            removed == {k \in LabelKeys :
                            listed.labels[k] # Absent /\ updated.labels[k] = Absent}
        IN IF updated = listed
           THEN /\ UNCHANGED pods
                /\ PlNextPod(i, pl[i], p)
           ELSE \E patchFails \in BOOLEAN :
                IF patchFails
                THEN /\ UNCHANGED pods
                     /\ PlNextPod(i, [pl[i] EXCEPT !.trace.faults = @ \cup {"patch"}], p)
                ELSE /\ pods' = [pods EXCEPT ![p] = MergePatch(@, listed, updated)]
                     /\ PlNextPod(i, [pl[i] EXCEPT !.trace.patched = @ \cup {p},
                                                   !.trace.removed = @ \cup removed], p)

\* PodPatch as it would be if every listed pod were patched, changed or not
PodPatch_AlwaysPatches(i) ==
    /\ pl[i].pc = "patch"
    /\ UNCHANGED plFrame
    /\ \E p \in pl[i].todo :
        LET listed == pl[i].listed[p]
            updated == IF pl[i].obj.deleting
                       THEN RemoveOtterizeAccessLabels(listed)
                       ELSE UpdateOtterizeAccessLabels(listed, pl[i].obj, ServiceName(i))
            removed == {k \in LabelKeys :
                            listed.labels[k] # Absent /\ updated.labels[k] = Absent}
        IN \E patchFails \in BOOLEAN :
                IF patchFails
                THEN /\ UNCHANGED pods
                     /\ PlReturn(i, [pl[i] EXCEPT
                                        !.trace.events =
                                            Append(@, WarningEvent(ReasonUpdatePodFailed)),
                                        !.trace.faults = @ \cup {"patch"}],
                                 "other")
                ELSE /\ pods' = [pods EXCEPT ![p] = MergePatch(@, listed, updated)]
                     /\ PlNextPod(i, [pl[i] EXCEPT !.trace.patched = @ \cup {p},
                                                   !.trace.removed = @ \cup removed], p)

\* one listed pod: the wanted pod is computed and, when it differs from the
\* listed one, patched; a failed patch is recorded and ends the reconcile
PodPatch(i) ==
    /\ pl[i].pc = "patch"
    /\ UNCHANGED plFrame
    /\ \E p \in pl[i].todo :
        LET listed == pl[i].listed[p]
            updated == IF pl[i].obj.deleting
                       THEN RemoveOtterizeAccessLabels(listed)
                       ELSE UpdateOtterizeAccessLabels(listed, pl[i].obj, ServiceName(i))
            removed == {k \in LabelKeys :
                            listed.labels[k] # Absent /\ updated.labels[k] = Absent}
        IN IF updated = listed
           THEN /\ UNCHANGED pods
                /\ PlNextPod(i, pl[i], p)
           ELSE \E patchFails \in BOOLEAN :
                IF patchFails
                THEN /\ UNCHANGED pods
                     /\ PlReturn(i, [pl[i] EXCEPT
                                        !.trace.events =
                                            Append(@, WarningEvent(ReasonUpdatePodFailed)),
                                        !.trace.faults = @ \cup {"patch"}],
                                 "other")
                ELSE /\ pods' = [pods EXCEPT ![p] = MergePatch(@, listed, updated)]
                     /\ PlNextPod(i, [pl[i] EXCEPT !.trace.patched = @ \cup {p},
                                                   !.trace.removed = @ \cup removed], p)

\* somebody else sets or removes a label of a pod that no reconciler owns
RelabelPod(p) ==
    /\ p \in DOMAIN pods
    /\ pods' = [pods EXCEPT ![p].labels[UnrelatedLabelKey] =
                    IF @ = Absent THEN "x" ELSE Absent]
    /\ UNCHANGED <<plFrame, pl>>

PodLabelReconcileNext(i) ==
    \/ PodLabelReconcile(i)
    \/ PodList(i)
    \/ PodPatch(i)
    \/ PodResync(i)

\* the declaring service whose pods are labelled
PodClients == {"client-a"}

PodCallLists ==
    { <<HttpCall("server", "")>>,
      <<HttpCall("server-2", "")>>,
      <<HttpCall("server", ""), HttpCall("server-2", "")>> }

PodSpecs == {[nil |-> FALSE, calls |-> c] : c \in PodCallLists}

\* a pod of service owner with the access labels given
NewPod(owner, access, client, annotated) ==
    [namespace |-> DeclaringNamespace,
     labels |-> [k \in LabelKeys |->
        IF k = OtterizeServerLabelKey
        THEN GetFormattedOtterizeIdentity(owner, DeclaringNamespace)
        ELSE IF k = OtterizeClientLabelKey
        THEN (IF client THEN GetFormattedOtterizeIdentity(owner, DeclaringNamespace)
              ELSE Absent)
        ELSE IF k \in AccessLabelKeys
        THEN (IF k \in access THEN "true" ELSE Absent)
        ELSE "x"],
     annotations |-> [k \in AnnotationKeys |->
        IF k = UnrelatedAnnotationKey /\ annotated THEN "b" ELSE Absent]]

\* The intents object of client-a is Active; the Network Policy Reconciler has
\* attached its finalizer, or not yet.  Its pods carry the labels an earlier reconcile
\* of this object gave them, or none, and annotations or none; the pod of
\* client-b carries access labels of its own.
InitPodLabel ==
    /\ \E spec \in PodSpecs, finalizers \in SUBSET {NetworkPolicyFinalizerName} :
            intents = [i \in IntentNames |->
                IF i \in PodClients
                THEN [NewIntent(spec) EXCEPT !.finalizers = finalizers]
                ELSE NoIntent]
    /\ policies = {}
    /\ events = 0
    /\ np = [i \in IntentNames |-> IdleWorker]
    /\ npResult = [i \in IntentNames |-> NoResult]
    /\ npSynced = [i \in IntentNames |-> TRUE]
    /\ deletedTogether = FALSE
    /\ kafkaServers = {}
    /\ enforcementDefaultState = TRUE
    /\ enableKafkaACLCreation = TRUE
    /\ operatorPod = [namespace |-> OperatorNamespace, identity |-> OperatorIdentity]
    /\ protectedServices = {}
    /\ acls = [b \in Brokers |-> {}]
    /\ sessions = [b \in Brokers |-> 0]
    /\ kaTraced = FALSE
    /\ kaTrace = [i \in IntentNames |-> NoTrace]
    /\ ka = [i \in IntentNames |-> KaIdleWorker]
    /\ kaResult = [i \in IntentNames |-> KaNoResult]
    /\ kaSynced = [i \in IntentNames |-> TRUE]
    /\ \E labelled \in BOOLEAN, annotated \in BOOLEAN, otherLabelled \in BOOLEAN :
            pods = [p \in PodNames |->
                IF p \in MatchingPodNames
                THEN NewPod("client-a",
                            IF labelled THEN IntentsLabels(intents["client-a"]) ELSE {},
                            labelled, annotated)
                ELSE NewPod("client-b",
                            IF otherLabelled THEN AccessLabelKeys ELSE {},
                            otherLabelled, annotated)]
    /\ NoWebhook /\ NoNaming
    /\ pl = [i \in IntentNames |-> PlIdleWorker]

PodLabelNext ==
    \/ \E i \in PodClients, spec \in PodSpecs : EditIntent(i, spec)
    \/ \E i \in PodClients : DeleteIntent(i)
    \/ \E i \in PodClients : PodLabelReconcileNext(i)
    \/ \E p \in RelabelledPodNames : RelabelPod(p)

SpecPodLabel == InitPodLabel /\ [][PodLabelNext]_vars

\* ===================================================================== claims
HasFinalizer(i) ==
    intents[i] # NoIntent /\ NetworkPolicyFinalizerName \in intents[i].finalizers

Live(i) == intents[i] # NoIntent /\ ~intents[i].deleting

\* the keys of the policies the Calls of an intents object ask for
WantedPolicies(obj) ==
    {PolicyKey(GetCallsList(obj)[k], obj.namespace) : k \in DOMAIN GetCallsList(obj)}

\* the ACL entries that grant something to the service of key i: among given
\* entries, and on broker b
GrantsIn(existing, i) == {a \in existing : a.principal = ServiceName(i)}

GrantsOf(i, b) == GrantsIn(acls[b], i)

\* C1: when the intents that name target service "server" are applied and
\* deleted one at a time, each request being fully reconciled before the next,
\* the rule of "server" exists exactly while an intents object is left: it
\* survives every deletion but the last and is absent after the last one.
C1_ReferenceCounting ==
    Quiescent =>
        (PolicyExists(PolicyKey(HttpCall("server", ""), DeclaringNamespace))
            <=> \E j \in IntentNames : intents[j] # NoIntent)

\* C2: once an intent that is not terminating has been reconciled, the rule of
\* each of its Calls exists as long as the intent stays as it is; no
\* finalization of another intent deletes it.
C2_RuleSurvivesWhileReferenced ==
    \A j \in IntentNames :
        (Live(j) /\ np[j].pc = "idle" /\ npSynced[j])
            => \A key \in WantedPolicies(intents[j]) : PolicyExists(key)

\* C3: an intents object leaves the store only when no configured broker holds
\* an ACL entry of its service any more.
C3_GoneOnlyAfterGrantsRemoved ==
    [][\A i \in KafkaClients :
        (intents[i] # NoIntent /\ intents'[i] = NoIntent)
            => \A b \in kafkaServers : GrantsOf(i, b) = {}]_vars

\* C4: while a reconcile of an Active intent looks up or creates a rule, the
\* finalizer is in the stored intent: it was persisted first, and no rule work
\* is done after a failed update.
C4_FinalizerPersistedBeforeRules ==
    \A i \in IntentNames :
        np[i].pc \in {"policyGet", "policyCreate"} => HasFinalizer(i)

\* a reconcile that attached the finalizer itself is about to create a rule
C4_Witness ==
    \E i \in IntentNames : np[i].pc = "policyCreate" /\ np[i].addedFinalizer

\* C5: a finalization in which a rule lookup or delete failed (other than with
\* not-found) returns an error or a retry request and leaves the finalizer.
C5_TeardownErrorKeepsFinalizer ==
    [][\A i \in IntentNames :
        (np[i].teardownFailed /\ np'[i].pc = "idle")
            => /\ (npResult'[i].err # "nil" \/ npResult'[i].requeue)
               /\ intents'[i] # NoIntent
               /\ NetworkPolicyFinalizerName \in intents'[i].finalizers]_vars

\* C6: when the lookup of the rule to delete answers not-found, nothing is
\* deleted, the reconcile goes on to the next Call or to the removal of the
\* finalizer, and a reconcile that then returns success has cleared the
\* finalizer.
C6_NotFoundIsAlreadyDone ==
    [][\A i \in IntentNames :
        /\ (/\ np[i].pc = "removeGet"
            /\ np'[i].pc # "removeGet"
            /\ ~PolicyExists(PolicyKey(CurrentCall(np[i]), np[i].obj.namespace)))
              => /\ policies' = policies
                 /\ \/ np'[i].pc = "removeDelete" /\ np'[i].err = "other"
                    \/ /\ np'[i].pc \in {"list", "removeFinalizer"}
                       /\ np'[i].err = "notfound"
                       /\ np'[i].teardownFailed = np[i].teardownFailed
        /\ (/\ np[i].pc = "removeFinalizer"
            /\ np[i].err = "notfound"
            /\ np'[i].pc = "idle"
            /\ npResult'[i] = [requeue |-> FALSE, err |-> "nil"])
              => (intents'[i] = NoIntent
                    \/ NetworkPolicyFinalizerName \notin intents'[i].finalizers)]_vars

\* the rule was not found and the reconcile is about to clear the finalizer
C6_Witness ==
    \E i \in IntentNames :
        /\ np[i].pc = "removeFinalizer"
        /\ np[i].err = "notfound"
        /\ ~np[i].teardownFailed

\* C7: no reconcile returns the conflict of an intent update as an error; it
\* returns a retry request.
C7_ConflictIsRetry ==
    \A i \in IntentNames : npResult[i].err # "conflict"

\* C8: when the two intents that name a server were terminating at once, no
\* two finalizations both leave the rule to the other one, and once both
\* objects are gone no rule is left.
C8_SimultaneousDeletionRemovesRule ==
    /\ \A a, b \in IntentNames :
        (/\ a # b
         /\ np[a].pc = "removeFinalizer" /\ np[b].pc = "removeFinalizer"
         /\ ~np[a].teardownFailed /\ ~np[b].teardownFailed
         /\ np[a].fresh /\ np[b].fresh)
            => \A key \in WantedPolicies(np[a].obj) \cap WantedPolicies(np[b].obj) :
                    ~PolicyExists(key)
    /\ (deletedTogether /\ \A i \in IntentNames : intents[i] = NoIntent)
            => policies = {}

\* C9: when no reconcile is running or pending, every rule is asked for by a
\* Call of some intents object of the declaring namespace.
C9_NoOrphanRule ==
    Quiescent =>
        \A p \in policies :
            \E j \in IntentNames :
                intents[j] # NoIntent /\ KeyOf(p) \in WantedPolicies(intents[j])

\* C10: the enforcement decision of a broker is true only when the service is
\* declared protected or the enforcement is on by default; a grant appears on a
\* broker only in a reconcile whose decision for that broker was true; and a
\* reconcile of a terminating intent removes every grant of the service from
\* the broker it calls, and leaves none on any configured broker when it
\* returns success, whatever the decision was.
C10_EnforcementGatesGrantsOnly ==
    [][\A i \in KafkaClients :
        /\ (ka[i].pc = "enforcement" /\ ka'[i].pc = "open")
              => (ka'[i].shouldCreatePolicy
                    <=> (ka'[i].cur \in protectedServices \/ enforcementDefaultState))
        /\ \A b \in Brokers :
              ~(GrantsOf(i, b)' \subseteq GrantsOf(i, b))
                  => /\ ka[i].pc = "call" /\ ka[i].mode = "apply" /\ ka[i].cur = b
                     /\ ka[i].shouldCreatePolicy
                     /\ enableKafkaACLCreation
        /\ (ka[i].pc = "call" /\ ka[i].mode = "remove" /\ acls' # acls)
              => GrantsIn(acls'[ka[i].cur], i) = {}
        /\ (ka[i].mode = "remove" /\ ka'[i].pc = "idle" /\ kaResult'[i].err = "nil")
              => \A b \in kafkaServers : GrantsOf(i, b)' = {}]_vars

\* the enforcement is off for the broker and the reconcile of the terminating
\* intent is about to remove the grant the service holds on it
C10_Witness ==
    \E i \in KafkaClients :
        /\ ka[i].pc = "call" /\ ka[i].mode = "remove"
        /\ ~ka[i].shouldCreatePolicy
        /\ ~enforcementDefaultState
        /\ ka[i].cur \notin protectedServices
        /\ GrantsOf(i, ka[i].cur) # {}

\* ---------------------------------------------- claims on the Kafka reconcile
\* the last reconcile of key i has returned; kaResult and kaTrace tell what it did
Finished(i) ==
    ka[i].pc = "idle" /\ (kaSynced[i] \/ kaResult[i].err # "nil")

FaultKinds(i) == {f.kind : f \in kaTrace[i].faults}

\* the brokers for which a call of the given kinds failed
FaultedServers(i, kinds) == {f.server : f \in {g \in kaTrace[i].faults : g.kind \in kinds}}

\* the engine's own pod carries the identity of the declaring service of key i
IsOperatorsOwn(i) ==
    /\ operatorPod.namespace = intents[i].namespace
    /\ operatorPod.identity = ServiceName(i)

\* the last reconcile of the Active intent i got as far as applyACLs
ApplyRan(i) ==
    /\ Finished(i)
    /\ ~intents[i].deleting
    /\ FaultKinds(i) \cap {"get", "resolve"} = {}
    /\ ~IsOperatorsOwn(i)

\* the brokers the Kafka calls of the intents object name
NamedServers(i) ==
    DOMAIN getIntentsByServer(intents[i].namespace, GetCallsList(intents[i]))

\* C11: the reconcile of a Terminating intent invokes RemoveClientIntents on
\* every configured broker whose enforcement query and connection succeeded,
\* whatever the enforcement decision and whichever brokers the Calls name; when
\* it returns success it has invoked it on every configured broker and no
\* grant of the service is left.
C11_TeardownOnEveryBroker ==
    \A i \in KafkaClients :
        (Finished(i) /\ intents[i].deleting /\ "get" \notin FaultKinds(i))
            => /\ kafkaServers \ FaultedServers(i, {"query", "connect"})
                    \subseteq kaTrace[i].invoked
               /\ kaResult[i].err = "nil"
                    => /\ kaTrace[i].invoked = kafkaServers
                       /\ \A b \in kafkaServers : GrantsOf(i, b) = {}

\* the enforcement is off for every broker, the Calls name no broker, and the
\* teardown was invoked on both configured brokers
C11_Witness ==
    \E i \in KafkaClients :
        /\ Finished(i) /\ intents[i].deleting
        /\ ~enforcementDefaultState /\ protectedServices = {}
        /\ NamedServers(i) = {}
        /\ kafkaServers = Brokers
        /\ kaTrace[i].invoked = Brokers
        /\ kaResult[i].err = "nil"

\* C12: a broker has an open admin session exactly while the reconcile that
\* opened it is at the call of ApplyClientIntents or RemoveClientIntents for
\* that broker: at most one, closed when the handling of the broker returns,
\* none after the reconcile returned, and never fewer than none.
C12_ScopedSession ==
    /\ \A b \in Brokers :
        /\ sessions[b] \in {0, 1}
        /\ sessions[b] = 1
            <=> \E i \in KafkaClients :
                    ka[i].pc = "call" /\ ka[i].cur = b /\ ka[i].session.open
    /\ \A i \in KafkaClients : ka[i].session.open => ka[i].pc = "call"

\* ApplyClientIntents failed on a session that was open, the reconcile has
\* returned and no session is open
C12_Witness ==
    \E i \in KafkaClients :
        /\ Finished(i)
        /\ "apply" \in FaultKinds(i)
        /\ \A b \in Brokers : sessions[b] = 0

C14_CollaboratorFailureSurfaces ==
    \A i \in KafkaClients :
        (Finished(i) /\ FaultKinds(i) \cap {"connect", "apply", "remove"} # {})
            => /\ kaResult[i].err # "nil"
               /\ \E e \in kaTrace[i].events : e.type = "Warning"
               /\ ~kaSynced[i]

\* RemoveClientIntents failed in the reconcile of a Terminating intent
C14_Witness ==
    \E i \in KafkaClients :
        /\ Finished(i) /\ intents[i].deleting
        /\ "remove" \in FaultKinds(i)
        /\ kaResult[i].err # "nil"

\* C15: a reconcile of an Active intent in which no call failed returns
\* success, and it has recorded the not-configured warning exactly when a
\* Kafka call names a broker that has no configuration.
C15_UnconfiguredBrokerIsWarning ==
    \A i \in KafkaClients :
        (ApplyRan(i) /\ kaTrace[i].faults = {})
            => /\ kaResult[i].err = "nil"
               /\ WarningEvent(ReasonKafkaServerNotConfigured) \in kaTrace[i].events
                    <=> ~(NamedServers(i) \subseteq kafkaServers)

\* a call names kafka-2, which is not configured, kafka-1 was handled, and the
\* reconcile returned success with the warning
C15_Witness ==
    \E i \in KafkaClients :
        /\ ApplyRan(i)
        /\ ~(NamedServers(i) \subseteq kafkaServers)
        /\ kaTrace[i].invoked = kafkaServers /\ kafkaServers # {}
        /\ kaResult[i].err = "nil"
        /\ WarningEvent(ReasonKafkaServerNotConfigured) \in kaTrace[i].events

\* C16: for an Active intent whose declaring service is the engine's own pod
\* identity the reconcile never gets to a broker: no session is opened,
\* ApplyClientIntents is not invoked, and unless a call failed it returns
\* success.
C16_SelfExclusion ==
    \A i \in KafkaClients :
        (~intents[i].deleting /\ IsOperatorsOwn(i))
            => /\ ka[i].pc \in {"idle", "resolve"}
               /\ \A b \in Brokers : sessions[b] = 0
               /\ Finished(i)
                    => /\ kaTrace[i].invoked = {}
                       /\ kaTrace[i].faults = {} => kaResult[i].err = "nil"

\* the intent of the engine itself names both configured brokers and its
\* reconcile returned success without a call to a broker
C16_Witness ==
    \E i \in KafkaClients :
        /\ ~intents[i].deleting /\ IsOperatorsOwn(i)
        /\ Finished(i) /\ kaTrace[i].faults = {} /\ kaResult[i].err = "nil"
        /\ kafkaServers = Brokers /\ NamedServers(i) = Brokers
        /\ kaTrace[i].invoked = {}

\* C17: a reconcile in which the engine's pod identity could not be resolved
\* returns an error, has recorded the warning event and has applied no ACL.
C17_ResolveFailureIsWarnedError ==
    \A i \in KafkaClients :
        (Finished(i) /\ "resolve" \in FaultKinds(i))
            => /\ kaResult[i].err # "nil"
               /\ WarningEvent(ReasonIntentsOperatorIdentityResolveFailed)
                    \in kaTrace[i].events
               /\ kaTrace[i].invoked = {}

\* ------------------------------------------ claims on the Pod Label Reconciler
\* the last reconcile of key i read the object as it is now and returned success
PlDone(i) ==
    pl[i].pc = "idle" /\ ~PlQueued(i)

\* the pods the selector of the declaring service of key i matches
MatchingPods(i) ==
    {p \in DOMAIN pods : MatchesSelector(pods[p], ServiceName(i), intents[i].namespace)}

\* the access labels the pod carries
AccessLabelsOfPod(p) ==
    {k \in AccessLabelKeys : pods[p].labels[k] # Absent}

\* C18: once an Active intent is reconciled, every pod that matches the
\* selector of its declaring service carries the client label with the
\* identity of the service and the access label "true" of each Call, and no
\* pod that does not match was patched.
C18_ActivePodsLabelled ==
    \A i \in PodClients :
        /\ intents[i] # NoIntent => pl[i].trace.patched \subseteq MatchingPods(i)
        /\ (PlDone(i) /\ Live(i))
            => \A p \in MatchingPods(i) :
                /\ pods[p].labels[OtterizeClientLabelKey] =
                        GetFormattedOtterizeIdentity(ServiceName(i), intents[i].namespace)
                /\ \A k \in IntentsLabels(intents[i]) : pods[p].labels[k] = "true"

\* the reconcile of an intent with two Calls patched both pods of the service
C18_Witness ==
    \E i \in PodClients :
        /\ PlDone(i) /\ Live(i)
        /\ pl[i].trace.patched = MatchingPodNames
        /\ IntentsLabels(intents[i]) = AccessLabelKeys
        /\ \A p \in MatchingPodNames : AccessLabelsOfPod(p) = AccessLabelKeys

\* C19: a step of the reconcile of a Terminating intent changes no label but
\* the access labels and no annotation but the marker; the pod it patches is
\* left without access label and with the marker "true", every other pod as it
\* was; and once the Terminating intent is reconciled every matching pod is so.
C19_TerminatingStripsAccessLabels ==
    /\ [](\A i \in PodClients :
            (PlDone(i) /\ intents[i] # NoIntent /\ intents[i].deleting)
                => \A p \in MatchingPods(i) :
                    /\ AccessLabelsOfPod(p) = {}
                    /\ pods[p].annotations[AllIntentsRemovedAnnotation] = "true")
    /\ [][\A i \in PodClients :
            (pl[i].pc = "patch" /\ pl[i].obj.deleting /\ pl'[i] # pl[i])
                => \A p \in DOMAIN pods :
                    /\ \A k \in LabelKeys \ AccessLabelKeys :
                            pods'[p].labels[k] = pods[p].labels[k]
                    /\ \A k \in AnnotationKeys \ {AllIntentsRemovedAnnotation} :
                            pods'[p].annotations[k] = pods[p].annotations[k]
                    /\ IF p \in pl'[i].trace.patched \ pl[i].trace.patched
                       THEN /\ \A k \in AccessLabelKeys : pods'[p].labels[k] = Absent
                            /\ pods'[p].annotations[AllIntentsRemovedAnnotation] = "true"
                       ELSE pods'[p] = pods[p]]_vars

\* pods that had no annotation at all lost their access labels and carry the
\* marker; the client label and the unrelated label are still there
C19_Witness ==
    \E i \in PodClients :
        /\ PlDone(i) /\ intents[i] # NoIntent /\ intents[i].deleting
        /\ pl[i].trace.removed # {}
        /\ \A p \in MatchingPodNames :
            /\ pods[p].annotations[UnrelatedAnnotationKey] = Absent
            /\ pods[p].annotations[AllIntentsRemovedAnnotation] = "true"
            /\ AccessLabelsOfPod(p) = {}
            /\ pods[p].labels[OtterizeClientLabelKey] # Absent
            /\ pods[p].labels[OtterizeServerLabelKey] # Absent

\* C20: once an Active intent is reconciled, the access labels of every
\* matching pod are exactly those of its current Calls.
C20_AccessLabelsFollowCalls ==
    \A i \in PodClients :
        (PlDone(i) /\ Live(i))
            => \A p \in MatchingPods(i) : AccessLabelsOfPod(p) = IntentsLabels(intents[i])

\* the Calls were edited from server to server-2; the reconcile removed the
\* access label of server and the pods carry that of server-2 alone
C20_Witness ==
    \E i \in PodClients :
        /\ PlDone(i) /\ Live(i)
        /\ events > 0
        /\ IntentsLabels(intents[i]) = {AccessLabelOf("server-2", DeclaringNamespace)}
        /\ AccessLabelOf("server", DeclaringNamespace) \in pl[i].trace.removed
        /\ \A p \in MatchingPodNames :
                AccessLabelsOfPod(p) = {AccessLabelOf("server-2", DeclaringNamespace)}

\* C21: a reconcile in which a pod patch failed returned an error and recorded
\* exactly one event, the warning UpdatePodFailed; a reconcile in which no
\* patch failed recorded no event, and no reconcile records more than one.
C21_FailedPatchIsOneWarning ==
    \A i \in PodClients :
        /\ Len(pl[i].trace.events) <= 1
        /\ pl[i].pc = "idle"
            => IF "patch" \in pl[i].trace.faults
               THEN /\ pl[i].last.err \notin {"nil", "resync"}
                    /\ pl[i].trace.events = <<WarningEvent(ReasonUpdatePodFailed)>>
               ELSE pl[i].trace.events = <<>>

\* the patch of the second pod failed after the first pod had been patched
C21_Witness ==
    \E i \in PodClients :
        /\ pl[i].pc = "idle"
        /\ pl[i].trace.faults = {"patch"}
        /\ pl[i].trace.patched # {}
        /\ pl[i].trace.events = <<WarningEvent(ReasonUpdatePodFailed)>>

\* C22: a reconcile queued again for an intent that did not change since its
\* last successful reconcile issues no patch, whether succeeding or failing,
\* records no event and changes no label and no annotation of any pod.
C22_LabelIdempotence ==
    /\ [](\A i \in PodClients :
            pl[i].trace.again
                => /\ pl[i].trace.patched = {}
                   /\ "patch" \notin pl[i].trace.faults
                   /\ pl[i].trace.events = <<>>)
    /\ [][\A i \in PodClients :
            (pl[i].trace.again /\ pl[i].pc # "idle" /\ pl'[i] # pl[i])
                => pods' = pods]_vars

\* the second reconcile of an intent with two Calls returned without a patch,
\* the pods carrying the labels the first one gave them
C22_Witness ==
    \E i \in PodClients :
        /\ PlDone(i) /\ Live(i)
        /\ pl[i].trace.again
        /\ pl[i].trace.faults = {}
        /\ IntentsLabels(intents[i]) = AccessLabelKeys
        /\ \A p \in MatchingPodNames : AccessLabelsOfPod(p) = AccessLabelKeys

\* C23: the reconcile of an Active intent that carries no finalizer has
\* attached a finalizer to the stored object when it goes on to list the pods.
C23_FinalizerBeforePods ==
    [][\A i \in PodClients :
        (/\ pl[i].pc = "idle" /\ pl'[i].pc = "list"
         /\ ~intents[i].deleting
         /\ intents[i].finalizers = {})
            => intents'[i].finalizers # {}]_vars

PolicyClients == {"client-a"}

\* The intents object of client-a was applied and is not yet reconciled; no
\* rule exists.
InitPolicy ==
    /\ pods = NoPods
    /\ NoWebhook /\ NoNaming
    /\ pl = [i \in IntentNames |-> PlIdleWorker]
    /\ \E spec \in Specs :
            intents = [i \in IntentNames |->
                IF i \in PolicyClients THEN NewIntent(spec) ELSE NoIntent]
    /\ policies = {}
    /\ events = 0
    /\ np = [i \in IntentNames |-> IdleWorker]
    /\ npResult = [i \in IntentNames |-> NoResult]
    /\ npSynced = [i \in IntentNames |-> i \notin PolicyClients]
    /\ deletedTogether = FALSE
    /\ kafkaServers = {}
    /\ enforcementDefaultState = TRUE
    /\ enableKafkaACLCreation = TRUE
    /\ operatorPod = [namespace |-> OperatorNamespace, identity |-> OperatorIdentity]
    /\ protectedServices = {}
    /\ acls = [b \in Brokers |-> {}]
    /\ sessions = [b \in Brokers |-> 0]
    /\ kaTraced = FALSE
    /\ kaTrace = [i \in IntentNames |-> NoTrace]
    /\ ka = [i \in IntentNames |-> KaIdleWorker]
    /\ kaResult = [i \in IntentNames |-> KaNoResult]
    /\ kaSynced = [i \in IntentNames |-> TRUE]

PolicyNext ==
    \/ \E i \in PolicyClients : Resync(i)
    \/ \E i \in PolicyClients : DeleteIntent(i)
    \/ \E i \in PolicyClients : ReconcileNext(i)

SpecPolicy == InitPolicy /\ [][PolicyNext]_vars

\* C29: every rule in the store is the rule of a Call to a target T by an
\* intents object of namespace ns: it is named from (T, ns), lives in the
\* namespace of T, carries the label otterize/network-policy = "true", selects
\* the pods whose server label is the identity of (T, namespace of T), and
\* admits ingress only from pods whose access label of that identity is "true"
\* in a namespace labelled ns; and the rule a reconcile creates is that of the
\* Call at hand, the namespace of T being the namespace of the Call or, when
\* the Call names none, ns.
C29_RuleShape ==
    /\ [](\A p \in policies :
            \E T \in {"server", "db"}, ns \in {DeclaringNamespace},
               tns \in {DeclaringNamespace, OtherNamespace} :
                /\ p.name = "access-to-" \o T \o "-from-" \o ns
                /\ p.namespace = tns
                /\ p.labels = {<<"otterize/network-policy", "true">>}
                /\ p.podSelector =
                        {<<OtterizeServerLabelKey, GetFormattedOtterizeIdentity(T, tns)>>}
                /\ p.ingressFromPods =
                        {<<OtterizeAccessLabelKey(GetFormattedOtterizeIdentity(T, tns)),
                           "true">>}
                /\ p.ingressFromNamespaces = {<<OtterizeNamespaceLabelKey, ns>>})
    /\ [][\A p \in policies' \ policies :
            \E i \in PolicyClients :
                /\ np[i].pc = "policyCreate"
                /\ LET call == CurrentCall(np[i]) IN
                    /\ p.name = "access-to-" \o call.server \o "-from-" \o np[i].obj.namespace
                    /\ p.namespace = IF call.namespace = "" THEN np[i].obj.namespace
                                     ELSE call.namespace
                    /\ p.podSelector =
                            {<<OtterizeServerLabelKey,
                               GetFormattedOtterizeIdentity(call.server, p.namespace)>>}
                    /\ p.ingressFromNamespaces =
                            {<<OtterizeNamespaceLabelKey, np[i].obj.namespace>>}]_vars

\* the reconcile of an intent that calls server in the other namespace
\* created its rule there
C29_Witness ==
    \E i \in PolicyClients :
        /\ np[i].pc = "idle" /\ npSynced[i] /\ Live(i)
        /\ NetworkPolicyFinalizerName \in intents[i].finalizers
        /\ \E p \in policies :
            /\ p.namespace = OtherNamespace
            /\ p.name = "access-to-server-from-ns1"
            /\ p.podSelector = {<<"intents.otterize.com/server", "server-ns2">>}

\* the stored intents object of key i is Active, carries the finalizer, and
\* every rule its Calls ask for exists
Settled(i) ==
    /\ Live(i)
    /\ NetworkPolicyFinalizerName \in intents[i].finalizers
    /\ \A key \in WantedPolicies(intents[i]) : PolicyExists(key)

\* C30: a step of the reconcile of an Active intent leaves every rule that
\* exists as it is and adds none under the key of an existing one; and a
\* reconcile of an intents object that is settled and unchanged issues no
\* update of the intent and no create of a rule, and writes nothing.
C30_NoWriteWhenSettled ==
    [][\A i \in PolicyClients :
        /\ (np[i].pc # "idle" /\ ~np[i].obj.deleting /\ np'[i] # np[i])
            => /\ policies \subseteq policies'
               /\ \A p \in policies' \ policies : ~PolicyExists(KeyOf(p))
        /\ (/\ Settled(i)
            /\ np[i].pc # np'[i].pc \/ npResult'[i] # npResult[i] \/ np[i].idx # np'[i].idx
            /\ np[i].pc = "idle" \/ np[i].obj = intents[i])
            => /\ intents' = intents
               /\ policies' = policies
               /\ np'[i].pc \notin {"addFinalizer", "policyCreate"}]_vars

\* the intent with two Calls was reconciled, queued again without a change and
\* reconciled again with success; its two rules exist
C30_Witness ==
    \E i \in PolicyClients :
        /\ np[i].pc = "idle" /\ npSynced[i] /\ Settled(i)
        /\ events > 0
        /\ npResult[i] = NoResult
        /\ Cardinality(policies) = 2

\* ------------------------------------------------ ProtectedService webhook
MaxNameLen == 2      \* characters of a Spec.Name

\* the characters of the names: one lower-case letter, one upper-case letter,
\* one digit, the two separators, and one character that is none of these
LowerCaseLetters == {"a"}
UpperCaseLetters == {"A"}
Digits == {"0"}
Separators == {"-", "_"}
NameChars == LowerCaseLetters \cup UpperCaseLetters \cup Digits \cup Separators \cup {"!"}

\* a name is the sequence of its characters
ServiceNames == UNION {[1..n -> NameChars] : n \in 0..MaxNameLen}

\* metadata.name of the ProtectedService objects
ObjectNames == {<<"a">>, <<"a", "0">>}

\* strings.ReplaceAll(s, old, "")
ReplaceAll(s, old) == SelectSeq(s, LAMBDA c : c # old)

\* strings.ToLower
ToLower(s) == [k \in DOMAIN s |-> IF s[k] \in UpperCaseLetters THEN "a" ELSE s[k]]

\* govalidator: the empty string passes every check
IsNull(s) == Len(s) = 0
IsAlphanumeric(s) ==
    IsNull(s) \/ \A k \in DOMAIN s :
                    s[k] \in LowerCaseLetters \cup UpperCaseLetters \cup Digits
IsLowerCase(s) == IsNull(s) \/ s = ToLower(s)

ErrorTypeDuplicate == "FieldValueDuplicate"
ErrorTypeForbidden == "FieldValueForbidden"

\* v.List with ListOptions{Namespace: ns}
ListProtectedServices(ns) == {o \in psObjects : o.namespace = ns}

validateNoDuplicateClients(protectedService, protectedServicesList) ==
    IF \E protectedServiceFromList \in protectedServicesList :
            /\ protectedServiceFromList.specName = protectedService.specName
            /\ protectedServiceFromList.name # protectedService.specName
    THEN {ErrorTypeDuplicate}
    ELSE {}

validateSpec(protectedService) ==
    LET serviceName == ReplaceAll(ReplaceAll(protectedService.specName, "-"), "_") IN
    IF ~IsAlphanumeric(serviceName) \/ ~IsLowerCase(serviceName)
    THEN {ErrorTypeForbidden}
    ELSE {}

\* ValidateCreate and ValidateUpdate: the error of the List, or the Invalid
\* error with the causes collected, or nil
Validate(op, protectedService, listFails) ==
    IF listFails
    THEN [op |-> op, obj |-> protectedService, err |-> "list", causes |-> {}]
    ELSE LET allErrs ==
                validateNoDuplicateClients(protectedService,
                        ListProtectedServices(protectedService.namespace))
                \cup validateSpec(protectedService)
         IN [op |-> op, obj |-> protectedService,
             err |-> IF allErrs = {} THEN "nil" ELSE "Invalid",
             causes |-> allErrs]

whFrame == <<intents, events, npOwnVars, kaVars, kaSynced, plVars, identityArgs, identityOut>>

\* kubectl create: the object is stored when ValidateCreate returns nil
CreateProtectedService(name, specName) ==
    /\ ~\E o \in psObjects : o.name = name /\ o.namespace = DeclaringNamespace
    /\ LET protectedService ==
                [name |-> name, namespace |-> DeclaringNamespace, specName |-> specName]
       IN \E listFails \in BOOLEAN :
            /\ admission' = Validate("create", protectedService, listFails)
            /\ psObjects' = IF admission'.err = "nil"
                            THEN psObjects \cup {protectedService}
                            ELSE psObjects
    /\ UNCHANGED whFrame

\* kubectl apply on an existing object: the new object replaces the old one
\* when ValidateUpdate returns nil
UpdateProtectedService(name, specName) ==
    /\ \E oldObj \in psObjects :
        /\ oldObj.name = name /\ oldObj.namespace = DeclaringNamespace
        /\ LET newObj == [oldObj EXCEPT !.specName = specName] IN
           \E listFails \in BOOLEAN :
            /\ admission' = Validate("update", newObj, listFails)
            /\ psObjects' = IF admission'.err = "nil"
                            THEN (psObjects \ {oldObj}) \cup {newObj}
                            ELSE psObjects
    /\ UNCHANGED whFrame

\* kubectl delete: ValidateDelete returns nil
DeleteProtectedService(name) ==
    /\ \E obj \in psObjects :
        /\ obj.name = name /\ obj.namespace = DeclaringNamespace
        /\ admission' = [op |-> "delete", obj |-> obj, err |-> "nil", causes |-> {}]
        /\ psObjects' = psObjects \ {obj}
    /\ UNCHANGED whFrame

\* the store holds one ProtectedService, in another namespace
InitWebhook ==
    /\ InitCluster
    /\ kafkaServers = {}
    /\ enforcementDefaultState = TRUE
    /\ enableKafkaACLCreation = TRUE
    /\ operatorPod = [namespace |-> OperatorNamespace, identity |-> OperatorIdentity]
    /\ kaTraced = FALSE
    /\ NoNaming
    /\ psObjects = {[name |-> <<"a">>, namespace |-> OtherNamespace, specName |-> <<"a">>]}
    /\ admission = NoAdmission

WebhookNext ==
    \/ \E name \in ObjectNames, specName \in ServiceNames :
            CreateProtectedService(name, specName)
    \/ \E name \in ObjectNames, specName \in ServiceNames :
            UpdateProtectedService(name, specName)
    \/ \E name \in ObjectNames : DeleteProtectedService(name)

SpecWebhook == InitWebhook /\ [][WebhookNext]_vars

\* the name matches ^[a-z0-9]+([-_][a-z0-9]+)*$
MatchesServiceNamePattern(s) ==
    /\ Len(s) >= 1
    /\ \A k \in DOMAIN s : s[k] \in LowerCaseLetters \cup Digits \cup Separators
    /\ s[1] \notin Separators
    /\ s[Len(s)] \notin Separators
    /\ \A k \in 1..(Len(s) - 1) : ~(s[k] \in Separators /\ s[k + 1] \in Separators)

\* C27: no two ProtectedService objects of one namespace have the same
\* Spec.Name.
C27_OnePerServiceName ==
    \A o1 \in psObjects, o2 \in psObjects :
        (o1.namespace = o2.namespace /\ o1.specName = o2.specName) => o1 = o2

\* C28: a create or update whose List succeeded is answered without the cause
\* Forbidden when the Spec.Name matches ^[a-z0-9]+([-_][a-z0-9]+)*$, and is
\* rejected with the cause Forbidden when it does not.
C28_OnlyPatternNamesAdmitted ==
    (admission.op \in {"create", "update"} /\ admission.err # "list")
        => IF MatchesServiceNamePattern(admission.obj.specName)
           THEN ErrorTypeForbidden \notin admission.causes
           ELSE admission.err = "Invalid" /\ ErrorTypeForbidden \in admission.causes

\* ---------------------------------------------------------- identity naming
MaxOtterizeNameLength == 20     \* characters kept of the name and of the namespace
HashSuffixLength == 6           \* hexadecimal digits of the digest that are kept
MaxLabelValueLength == 63

\* n times the character c
Repeat(c, n) == [k \in 1..n |-> c]

Truncate(s) ==
    IF Len(s) > MaxOtterizeNameLength THEN SubSeq(s, 1, MaxOtterizeNameLength) ELSE s

\* the digest of a text: a value that depends on the text alone, taken to be
\* different for different texts
HashOf(text) == [md5 |-> text]

\* The identity of (name, ns), names being sequences of characters: the
\* truncated name, "-", the truncated namespace, "-", and the first digits of
\* the digest of name "-" ns.
FormattedOtterizeIdentity(name, ns) ==
    [text |-> Truncate(name) \o <<"-">> \o Truncate(ns) \o <<"-">>,
     hashSuffix |-> HashOf(name \o <<"-">> \o ns)]

IdentityLength(id) == Len(id.text) + HashSuffixLength

\* names and namespaces: short ones, with and without "-", and ones longer
\* than the length that is kept
LongName == Repeat("p", MaxOtterizeNameLength)
LongNamespace == Repeat("q", MaxOtterizeNameLength)
IdentityNames ==
    { <<"a">>, <<"a", "-", "b">>,
      LongName \o <<"a">>, LongName \o <<"b">>,
      LongName \o <<"a", "-">> \o LongNamespace }
IdentityNamespaces ==
    { <<"c">>, <<"b", "-", "c">>,
      LongNamespace \o <<"b">>,
      LongNamespace \o <<"-">> \o LongNamespace \o <<"b">> }
IdentityPairs == IdentityNames \X IdentityNamespaces

\* two (name, namespace) pairs are about to be named
InitNaming ==
    /\ InitCluster
    /\ kafkaServers = {}
    /\ enforcementDefaultState = TRUE
    /\ enableKafkaACLCreation = TRUE
    /\ operatorPod = [namespace |-> OperatorNamespace, identity |-> OperatorIdentity]
    /\ kaTraced = FALSE
    /\ NoWebhook
    /\ identityArgs \in IdentityPairs \X IdentityPairs
    /\ identityOut = <<>>

FormatIdentities ==
    /\ identityOut = <<>>
    /\ identityOut' = [k \in DOMAIN identityArgs |->
                        FormattedOtterizeIdentity(identityArgs[k][1], identityArgs[k][2])]
    /\ UNCHANGED <<intents, events, npOwnVars, kaVars, kaSynced, plVars,
                   psObjects, admission, identityArgs>>

SpecNaming == InitNaming /\ [][FormatIdentities]_vars

\* one of the two is longer than the length that is kept
OverLength(pair) ==
    Len(pair[1]) > MaxOtterizeNameLength \/ Len(pair[2]) > MaxOtterizeNameLength

\* C26: the identities of two pairs are equal when the pairs are equal, none
\* is longer than 63 characters, and the identities of two different
\* over-length pairs with the same truncated name and namespace differ.
C26_IdentityNaming ==
    identityOut # <<>>
        => /\ identityArgs[1] = identityArgs[2] => identityOut[1] = identityOut[2]
           /\ \A k \in DOMAIN identityOut :
                    IdentityLength(identityOut[k]) <= MaxLabelValueLength
           /\ (/\ identityArgs[1] # identityArgs[2]
               /\ OverLength(identityArgs[1]) /\ OverLength(identityArgs[2])
               /\ identityOut[1].text = identityOut[2].text)
                => identityOut[1] # identityOut[2]

\* ------------------------------------------------- pods created after intents
\* CreatePod as it would be if the new pod queued no reconcile
CreatePod_NoNotification(p) ==
    /\ p \notin DOMAIN pods
    /\ pods' = [q \in DOMAIN pods \cup {p} |->
                    IF q = p THEN NewPod("client-a", {}, FALSE, FALSE) ELSE pods[q]]
    /\ UNCHANGED <<plFrame, pl>>

\* kubectl apply of a workload: a pod of service client-a appears, without
\* client label and access labels; the change queues the keys of the intents
\* of the service
CreatePod(p) ==
    /\ p \notin DOMAIN pods
    /\ pods' = [q \in DOMAIN pods \cup {p} |->
                    IF q = p THEN NewPod("client-a", {}, FALSE, FALSE) ELSE pods[q]]
    /\ pl' = [i \in IntentNames |->
                IF i \in PodClients THEN [pl[i] EXCEPT !.dirty = TRUE] ELSE pl[i]]
    /\ UNCHANGED plFrame

\* the intents object of client-a was applied; no pod of the service exists
InitTopology ==
    /\ \E spec \in PodSpecs :
            intents = [i \in IntentNames |->
                IF i \in PodClients THEN NewIntent(spec) ELSE NoIntent]
    /\ policies = {}
    /\ events = 0
    /\ np = [i \in IntentNames |-> IdleWorker]
    /\ npResult = [i \in IntentNames |-> NoResult]
    /\ npSynced = [i \in IntentNames |-> i \notin PodClients]
    /\ deletedTogether = FALSE
    /\ kafkaServers = {}
    /\ enforcementDefaultState = TRUE
    /\ enableKafkaACLCreation = TRUE
    /\ operatorPod = [namespace |-> OperatorNamespace, identity |-> OperatorIdentity]
    /\ protectedServices = {}
    /\ acls = [b \in Brokers |-> {}]
    /\ sessions = [b \in Brokers |-> 0]
    /\ kaTraced = FALSE
    /\ kaTrace = [i \in IntentNames |-> NoTrace]
    /\ ka = [i \in IntentNames |-> KaIdleWorker]
    /\ kaResult = [i \in IntentNames |-> KaNoResult]
    /\ kaSynced = [i \in IntentNames |-> TRUE]
    /\ pods = NoPods
    /\ NoWebhook /\ NoNaming
    /\ pl = [i \in IntentNames |-> PlIdleWorker]

\* the steps of the two reconcilers on an Active intent
TopologyPolicyNext(i) ==
    \/ Reconcile(i)
    \/ AddFinalizer(i)
    \/ PolicyGet(i)
    \/ PolicyCreate(i)

TopologyLabelNext(i) ==
    \/ PodLabelReconcile(i)
    \/ PodList(i)
    \/ PodPatch(i)

TopologyNext ==
    \/ \E p \in MatchingPodNames : CreatePod(p)
    \/ \E i \in PodClients : TopologyPolicyNext(i)
    \/ \E i \in PodClients : TopologyLabelNext(i)

\* a step in which a call of a reconcile fails and the reconcile returns the error
CallFails ==
    \E i \in PodClients :
        \/ TopologyPolicyNext(i) /\ np'[i].pc = "idle" /\ npResult'[i].err # "nil"
        \/ TopologyLabelNext(i) /\ pl'[i].pc = "idle" /\ pl'[i].last.err # "nil"

\* A queued key is reconciled, a reconcile that failed is queued again, and
\* the calls of the reconcilers fail only finitely often.
SpecTopology ==
    /\ InitTopology
    /\ [][TopologyNext]_vars
    /\ \A i \in PodClients :
            WF_vars(TopologyPolicyNext(i)) /\ WF_vars(TopologyLabelNext(i))
    /\ <>[][~CallFails]_vars

\* the pod carries the client label of the service of key i and the access
\* label of every Call of its intents object
LabelledFor(p, i) ==
    /\ p \in DOMAIN pods
    /\ pods[p].labels[OtterizeClientLabelKey] =
            GetFormattedOtterizeIdentity(ServiceName(i), intents[i].namespace)
    /\ \A k \in IntentsLabels(intents[i]) : pods[p].labels[k] = "true"

\* C25: with the intent declared before any pod of the service exists, every
\* pod of the service created afterwards eventually carries the client label
\* and the access label of each Call, and the rule of each Call eventually
\* exists.
C25_PodsCreatedLaterAreLabelled ==
    \A i \in PodClients :
        /\ \A p \in MatchingPodNames : (p \in DOMAIN pods) ~> LabelledFor(p, i)
        /\ <>(\A key \in WantedPolicies(intents[i]) : PolicyExists(key))

\* both pods were created after the intent with two Calls was reconciled and
\* carry its labels; its two rules exist
C25_Witness ==
    \E i \in PodClients :
        /\ IntentsLabels(intents[i]) = AccessLabelKeys
        /\ pl[i].pc = "idle" /\ ~PlQueued(i)
        /\ pl[i].trace.patched # {}
        /\ \A p \in MatchingPodNames : LabelledFor(p, i)
        /\ \A key \in WantedPolicies(intents[i]) : PolicyExists(key)
        /\ Cardinality(policies) = 2

\* ------------------------------------------ claims on the calls handed to a broker
\* the trace of the reconcile of key i after the step
TraceAfter(i) == IF ka'[i].pc = "idle" THEN kaTrace'[i] ELSE ka'[i].trace

\* the Kafka calls of the object the worker of key i read whose target is broker b
CallsTargeting(i, b) ==
    SelectSeq(GetCallsList(ka[i].obj),
              LAMBDA c : /\ c.type = IntentTypeKafka
                         /\ c.server = b.name
                         /\ (IF c.namespace = "" THEN ka[i].obj.namespace ELSE c.namespace)
                                = b.namespace)

\* the step is the call of ApplyClientIntents of key i
ApplyStep(i) ==
    /\ ka[i].pc = "call" /\ ka[i].mode = "apply"
    /\ ka'[i] # ka[i]

\* C31: in the apply path ApplyClientIntents is invoked once for every
\* configured broker, also for a broker no Call targets: a pass in which no
\* call failed has invoked it on every configured broker, no broker is invoked
\* twice in one reconcile, and an invocation that succeeds leaves on the broker
\* what ApplyClientIntents makes of exactly the Kafka Calls whose target name
\* and namespace are that broker (of the empty list when there is none).
C31_EveryBrokerGetsItsCalls ==
    /\ [](\A i \in KafkaClients :
            (ApplyRan(i) /\ kaTrace[i].faults = {})
                => kaTrace[i].invoked = kafkaServers)
    /\ [][\A i \in KafkaClients :
            ApplyStep(i)
                => /\ ka[i].cur \in kafkaServers
                   /\ ka[i].cur \notin ka[i].trace.invoked
                   /\ ka[i].cur \in TraceAfter(i).invoked
                   /\ Fault("apply", ka[i].cur) \notin TraceAfter(i).faults
                        => acls'[ka[i].cur] =
                             ApplyClientIntents(acls[ka[i].cur], ka[i].session,
                                                ServiceName(i),
                                                CallsTargeting(i, ka[i].cur))]_vars

\* the only Kafka call names kafka-1, both brokers are configured, grants are
\* created, and the pass has invoked ApplyClientIntents on both and left no
\* grant on kafka-2
C31_Witness ==
    \E i \in KafkaClients :
        /\ ApplyRan(i) /\ kaTrace[i].faults = {}
        /\ kafkaServers = Brokers
        /\ NamedServers(i) = {NamespacedName("kafka-1", DeclaringNamespace)}
        /\ enforcementDefaultState /\ enableKafkaACLCreation
        /\ kaTrace[i].invoked = Brokers
        /\ GrantsOf(i, NamespacedName("kafka-1", DeclaringNamespace)) # {}
        /\ GrantsOf(i, NamespacedName("kafka-2", DeclaringNamespace)) = {}

\* ------------------------------------------------------- grouping by broker
\* the longest Calls list that is grouped
MaxCalls == 3

\* the calls a list is made of: two topics of kafka-1, kafka-1 of another
\* namespace, kafka-2, and a call that is not a Kafka call
GroupingCalls ==
    { KafkaCall("kafka-1", "", "orders"),
      KafkaCall("kafka-1", "", "payments"),
      KafkaCall("kafka-1", OtherNamespace, "orders"),
      KafkaCall("kafka-2", "", "orders"),
      HttpCall("kafka-1", "") }

GroupingCallLists == UNION {[1..n -> GroupingCalls] : n \in 0..MaxCalls}

\* The reconciler starts on an Active intents object of client-a whose key is
\* queued; both brokers are configured, enforced and empty.
InitGrouping ==
    /\ \E c \in GroupingCallLists :
            intents = [i \in IntentNames |->
                        IF i \in KafkaClients
                        THEN NewIntent([nil |-> FALSE, calls |-> c])
                        ELSE NoIntent]
    /\ policies = {}
    /\ events = 0
    /\ np = [i \in IntentNames |-> IdleWorker]
    /\ npResult = [i \in IntentNames |-> NoResult]
    /\ npSynced = [i \in IntentNames |-> TRUE]
    /\ deletedTogether = FALSE
    /\ kafkaServers = Brokers
    /\ enforcementDefaultState = TRUE
    /\ enableKafkaACLCreation = TRUE
    /\ operatorPod = [namespace |-> OperatorNamespace, identity |-> OperatorIdentity]
    /\ protectedServices = {}
    /\ acls = [b \in Brokers |-> {}]
    /\ sessions = [b \in Brokers |-> 0]
    /\ kaTraced = TRUE
    /\ kaTrace = [i \in IntentNames |-> NoTrace]
    /\ ka = [i \in IntentNames |-> KaIdleWorker]
    /\ kaResult = [i \in IntentNames |-> KaNoResult]
    /\ kaSynced = [i \in IntentNames |-> i \notin KafkaClients]
    /\ pods = NoPods
    /\ NoWebhook /\ NoNaming
    /\ pl = [i \in IntentNames |-> PlIdleWorker]

GroupingNext ==
    \E i \in KafkaClients :
        \/ KafkaReconcile(i)
        \/ KafkaEnforcement(i)
        \/ KafkaOpen(i)
        \/ KafkaApply(i)

SpecGrouping == InitGrouping /\ [][GroupingNext]_vars

\* the positions of the Calls list whose call is a Kafka call with target sn
PositionsOf(calls, defaultNamespace, sn) ==
    {k \in DOMAIN calls :
        /\ calls[k].type = IntentTypeKafka
        /\ calls[k].server = sn.name
        /\ (IF calls[k].namespace = "" THEN defaultNamespace ELSE calls[k].namespace)
                = sn.namespace}

\* the j-th smallest of a set of positions
NthOf(positions, j) ==
    CHOOSE k \in positions : Cardinality({m \in positions : m <= k}) = j

\* C32: getIntentsByServer puts every Kafka Call in exactly one group, the one
\* keyed by its target name and its target namespace (the declaring namespace
\* when the Call names none); a group holds its Calls in the order of the
\* Calls list, holds no Call of another kind, and is never empty.
C32_GroupingByBroker ==
    \A i \in KafkaClients :
        intents[i] # NoIntent =>
            LET calls == GetCallsList(intents[i])
                ns == intents[i].namespace
                groups == getIntentsByServer(ns, calls)
                keys == {NamespacedName(calls[k].server,
                                        IF calls[k].namespace = ""
                                        THEN ns ELSE calls[k].namespace) :
                            k \in {m \in DOMAIN calls : calls[m].type = IntentTypeKafka}}
            IN /\ DOMAIN groups = keys
               /\ \A sn \in DOMAIN groups :
                    LET positions == PositionsOf(calls, ns, sn)
                    IN /\ positions # {}
                       /\ Len(groups[sn]) = Cardinality(positions)
                       /\ \A j \in 1..Len(groups[sn]) :
                            groups[sn][j] = calls[NthOf(positions, j)]

\* the Calls list holds a call that is not a Kafka call between two calls of
\* kafka-1 and a call of kafka-1 of another namespace, and the reconcile is at
\* the call of ApplyClientIntents for kafka-1 with the group of two
C32_Witness ==
    \E i \in KafkaClients :
        /\ ka[i].pc = "call" /\ ka[i].mode = "apply"
        /\ ka[i].cur = NamespacedName("kafka-1", DeclaringNamespace)
        /\ GetCallsList(ka[i].obj) =
                <<KafkaCall("kafka-1", "", "payments"), HttpCall("kafka-1", ""),
                  KafkaCall("kafka-1", "", "orders")>>
        /\ IntentsForServer(getIntentsByServer(ka[i].obj.namespace, GetCallsList(ka[i].obj)),
                            ka[i].cur)
             = <<KafkaCall("kafka-1", "", "payments"), KafkaCall("kafka-1", "", "orders")>>

\* ------------------------------------------------ enforcement and firewall rules
\* C33: the Network Policy Reconciler creates a rule for a Call only when the
\* enforcement is active for the target of the Call in its target namespace:
\* every step that adds a rule is taken while the target is protected or the
\* cluster-wide default is on.
C33_RuleOnlyWhenEnforced ==
    [][\A p \in policies' \ policies :
        \E i \in IntentNames :
            /\ np[i].pc = "policyCreate"
            /\ p = buildNetworkPolicyObjectForIntent(CurrentCall(np[i]), np[i].obj.namespace)
            /\ IsServerEnforcementEnabledDueToProtectionOrDefaultState(
                    ServerNameOf(CurrentCall(np[i]), np[i].obj.namespace),
                    enforcementDefaultState)]_vars

\* -------------------------------------- the enforcement decision of a broker
\* C34: the enforcement decision the admin session of a broker is opened with
\* is that of the enforcement query for the broker, and a false decision ends
\* nothing: unless the query itself failed the session is opened next, and
\* ApplyClientIntents is invoked on every session that was opened.
C34_DecisionHandedToSession ==
    [][\A i \in KafkaClients :
        /\ (ka[i].pc = "enforcement" /\ ka'[i] # ka[i]
                /\ TraceAfter(i).faults = ka[i].trace.faults)
              => /\ ka'[i].pc = "open"
                 /\ ka'[i].cur \in ka[i].todo
        /\ (ka[i].pc = "open" /\ ka'[i].pc = "call")
              => /\ ka'[i].session.open
                 /\ sessions'[ka[i].cur] = sessions[ka[i].cur] + 1
                 /\ ka'[i].session.enforcementActive
                        <=> IsServerEnforcementEnabledDueToProtectionOrDefaultState(
                                ka[i].cur, enforcementDefaultState)
        /\ ApplyStep(i)
              => /\ ka[i].session.open
                 /\ ka[i].cur \in TraceAfter(i).invoked]_vars

\* the enforcement is off by default and no broker is protected; the reconcile
\* of the Active intent returned after ApplyClientIntents was invoked on both
\* configured brokers, and no grant was created
C34_Witness ==
    \E i \in KafkaClients :
        /\ ApplyRan(i) /\ kaTrace[i].faults = {}
        /\ ~enforcementDefaultState /\ protectedServices = {}
        /\ enableKafkaACLCreation
        /\ NamedServers(i) = Brokers
        /\ kafkaServers = Brokers
        /\ kaTrace[i].invoked = Brokers
        /\ NormalEvent(ReasonEnforcementDefaultOff) \in kaTrace[i].events
        /\ \A b \in Brokers : GrantsOf(i, b) = {}

\* C35: when the enforcement query of a broker fails, in the apply path as in
\* the removal path, the query is not repeated within the reconcile, no admin
\* session is opened for that broker and neither ApplyClientIntents nor
\* RemoveClientIntents is invoked on it, and the reconcile returns an error.
C35_QueryErrorAbortsBroker ==
    /\ [](\A i \in KafkaClients :
            /\ ka[i].pc \in {"open", "call"}
                  => Fault("query", ka[i].cur) \notin ka[i].trace.faults
            /\ (Finished(i) /\ "query" \in FaultKinds(i))
                  => /\ kaResult[i].err # "nil"
                     /\ ~kaSynced[i]
                     /\ FaultedServers(i, {"query"}) \cap kaTrace[i].invoked = {})
    /\ [][\A i \in KafkaClients :
            \A b \in Brokers :
                (/\ ka[i].pc = "enforcement"
                 /\ Fault("query", b) \in TraceAfter(i).faults
                 /\ Fault("query", b) \notin ka[i].trace.faults)
                    => /\ sessions' = sessions /\ acls' = acls
                       /\ ka'[i].pc \in {"enforcement", "idle"}
                       /\ b \in ka[i].todo
                       /\ ka'[i].pc = "enforcement" => b \notin ka'[i].todo
                       /\ ka'[i].pc = "idle" => kaResult'[i].err # "nil"]_vars

\* the enforcement query of kafka-1 failed in the reconcile of a Terminating
\* intent: RemoveClientIntents was invoked on kafka-2 only, the grant on
\* kafka-1 is left, and the reconcile returned an error
C35_Witness ==
    \E i \in KafkaClients :
        /\ Finished(i) /\ intents[i].deleting
        /\ kafkaServers = Brokers
        /\ FaultedServers(i, {"query"}) = {NamespacedName("kafka-1", DeclaringNamespace)}
        /\ kaTrace[i].invoked = {NamespacedName("kafka-2", DeclaringNamespace)}
        /\ GrantsOf(i, NamespacedName("kafka-1", DeclaringNamespace)) # {}
        /\ kaResult[i].err # "nil"

\* ------------------------------------ updates of a ProtectedService object
\* C36: an update of a ProtectedService whose Spec.Name, a well-formed name,
\* no other object of its namespace has is not answered with the cause
\* Duplicate, whatever the resource name of the object is.
C36_NotADuplicateOfItself ==
    (/\ admission.op = "update"
     /\ admission.err # "list"
     /\ MatchesServiceNamePattern(admission.obj.specName)
     /\ ~\E other \in ListProtectedServices(admission.obj.namespace) :
            /\ other.name # admission.obj.name
            /\ other.specName = admission.obj.specName)
        => ErrorTypeDuplicate \notin admission.causes

\* ------------------------------------------- both reconcilers on one intent
TerminatingCalls == <<KafkaCall("kafka-1", "", "orders"), KafkaCall("kafka-2", "", "orders")>>

\* The intents object of client-a is Active and new, or Terminating, held by
\* the finalizer with its rules in place; it holds a grant on kafka-1; the
\* engine's pod is client-a itself or another service.  Both reconcilers have
\* the key queued.
InitTerminating ==
    /\ \E d \in BOOLEAN :
        /\ intents = [i \in IntentNames |->
                IF i \in KafkaClients
                THEN [NewIntent([nil |-> FALSE, calls |-> TerminatingCalls]) EXCEPT
                        !.deleting = d,
                        !.finalizers = IF d THEN {NetworkPolicyFinalizerName} ELSE {}]
                ELSE NoIntent]
        /\ policies = IF d
                      THEN {buildNetworkPolicyObjectForIntent(TerminatingCalls[k],
                                                              DeclaringNamespace) :
                                k \in DOMAIN TerminatingCalls}
                      ELSE {}
    /\ events = 0
    /\ np = [i \in IntentNames |-> IdleWorker]
    /\ npResult = [i \in IntentNames |-> NoResult]
    /\ npSynced = [i \in IntentNames |-> i \notin KafkaClients]
    /\ deletedTogether = FALSE
    /\ kafkaServers = Brokers
    /\ enforcementDefaultState = TRUE
    /\ enableKafkaACLCreation = TRUE
    /\ operatorPod \in
        {[namespace |-> OperatorNamespace, identity |-> OperatorIdentity],
         [namespace |-> DeclaringNamespace, identity |-> "client-a"]}
    /\ protectedServices = {}
    /\ acls = [b \in Brokers |->
                IF b = NamespacedName("kafka-1", DeclaringNamespace)
                THEN {[principal |-> "client-a", topic |-> "orders"]} ELSE {}]
    /\ sessions = [b \in Brokers |-> 0]
    /\ kaTraced = TRUE
    /\ kaTrace = [i \in IntentNames |-> NoTrace]
    /\ ka = [i \in IntentNames |-> KaIdleWorker]
    /\ kaResult = [i \in IntentNames |-> KaNoResult]
    /\ kaSynced = [i \in IntentNames |-> i \notin KafkaClients]
    /\ pods = NoPods
    /\ NoWebhook /\ NoNaming
    /\ pl = [i \in IntentNames |-> PlIdleWorker]

TerminatingNext ==
    \/ \E i \in KafkaClients : DeleteIntent(i)
    \/ \E i \in KafkaClients : ReconcileNext(i)
    \/ \E i \in KafkaClients : KafkaReconcileNext(i)

SpecTerminating == InitTerminating /\ [][TerminatingNext]_vars

\* the intents object of key i is stored and has its deletion timestamp set
IsTerminating(i) == intents[i] # NoIntent /\ intents[i].deleting

\* the Network Policy Reconciler is reconciling the Terminating intent i, or
\* would on its next Get
NpOnTerminating(i) ==
    IF np[i].pc = "idle" THEN IsTerminating(i) ELSE np[i].obj.deleting

\* the same of the Kafka ACL Reconciler
KaOnTerminating(i) ==
    IF ka[i].pc = "idle" THEN IsTerminating(i) ELSE ka[i].obj.deleting

FinalizersOf(obj) == IF obj = NoIntent THEN {} ELSE obj.finalizers

\* C37: the reconcile of a Terminating intent creates nothing.  The Network
\* Policy Reconciler never gets to adding the finalizer or to creating a rule,
\* and no rule and no finalizer appears; the Kafka ACL Reconciler never
\* resolves the engine's identity for it and never invokes ApplyClientIntents:
\* every broker it gets to is handled by RemoveClientIntents, and no grant
\* appears.
C37_TerminatingCreatesNothing ==
    [][\A i \in KafkaClients :
        /\ NpOnTerminating(i)
              => /\ np'[i].pc \notin {"addFinalizer", "policyGet", "policyCreate"}
                 /\ policies' \subseteq policies
                 /\ FinalizersOf(intents'[i]) \subseteq FinalizersOf(intents[i])
        /\ KaOnTerminating(i)
              => /\ ~ApplyStep(i)
                 /\ ka'[i].pc # "resolve"
                 /\ ka'[i].pc \in {"enforcement", "open", "call"} => ka'[i].mode = "remove"
                 /\ \A b \in Brokers : GrantsOf(i, b)' \subseteq GrantsOf(i, b)]_vars

\* the Terminating intent of the engine itself: the Kafka reconcile invoked
\* RemoveClientIntents on both brokers and the grant is gone, the finalization
\* removed the rules and the finalizer, and the object is gone
C37_Witness ==
    \E i \in KafkaClients :
        /\ events = 0
        /\ operatorPod = [namespace |-> DeclaringNamespace, identity |-> ServiceName(i)]
        /\ intents[i] = NoIntent
        /\ np[i].pc = "idle" /\ npResult[i].err = "nil"
        /\ policies = {}
        /\ ka[i].pc = "idle" /\ kaResult[i].err = "nil"
        /\ kaTrace[i].invoked = Brokers
        /\ \A b \in Brokers : GrantsOf(i, b) = {}

\* --------------------------------------- reference counting and namespaces
\* the stored intents object of key j calls the server in target namespace tns
CallsInto(j, server, tns) ==
    /\ intents[j] # NoIntent
    /\ \E k \in DOMAIN GetCallsList(intents[j]) :
            /\ GetCallsList(intents[j])[k].server = server
            /\ TargetNamespace(GetCallsList(intents[j])[k], intents[j].namespace) = tns

\* C38: when the finalizer of a Terminating intent is cleared and the object
\* goes, the rule of each of its Calls is gone unless another intents object
\* of the namespace calls the same server in the same target namespace; an
\* intents object that calls a server of that name in another target
\* namespace does not keep the rule.  (Finalizations in which a store call of
\* the teardown failed, or that ran while another intent naming the server was
\* terminating too, are left aside.)
C38_CountsPerTargetNamespace ==
    [][\A i \in IntentNames :
        (/\ np[i].pc = "removeFinalizer"
         /\ intents[i] # NoIntent
         /\ intents'[i] = NoIntent
         /\ ~np[i].teardownFailed
         /\ ~deletedTogether)
            => \A k \in DOMAIN GetCallsList(np[i].obj) :
                LET call == GetCallsList(np[i].obj)[k]
                    tns == TargetNamespace(call, np[i].obj.namespace)
                IN (~\E j \in IntentNames \ {i} :
                        /\ CallsInto(j, call.server, tns)
                        /\ intents[j].namespace = np[i].obj.namespace)
                    => ~\E p \in policies' :
                            KeyOf(p) = PolicyKey(call, np[i].obj.namespace)]_vars

\* ------------------------------------------------ progress of a finalization
FinalizationClients == {"client-a"}

\* The intents object of client-a has calls, holds the finalizer and has its
\* deletion timestamp set; its rules exist or not; client-b, which calls
\* "server" too, exists or not.  The key of client-a is queued.
InitFinalization ==
    /\ \E spec \in Specs \ {NilSpec}, other \in {NoIntent, NewIntent(ServerSpec)} :
        /\ intents = [i \in IntentNames |->
                IF i \in FinalizationClients
                THEN [NewIntent(spec) EXCEPT !.deleting = TRUE,
                                             !.finalizers = {NetworkPolicyFinalizerName}]
                ELSE other]
        /\ \E present \in BOOLEAN :
            policies = IF present
                       THEN {buildNetworkPolicyObjectForIntent(spec.calls[k], DeclaringNamespace) :
                                k \in DOMAIN spec.calls}
                       ELSE {}
    /\ events = 0
    /\ np = [i \in IntentNames |-> IdleWorker]
    /\ npResult = [i \in IntentNames |-> NoResult]
    /\ npSynced = [i \in IntentNames |-> i \notin FinalizationClients]
    /\ deletedTogether = FALSE
    /\ kafkaServers = {}
    /\ enforcementDefaultState = TRUE
    /\ enableKafkaACLCreation = TRUE
    /\ operatorPod = [namespace |-> OperatorNamespace, identity |-> OperatorIdentity]
    /\ protectedServices = {}
    /\ acls = [b \in Brokers |-> {}]
    /\ sessions = [b \in Brokers |-> 0]
    /\ kaTraced = FALSE
    /\ kaTrace = [i \in IntentNames |-> NoTrace]
    /\ ka = [i \in IntentNames |-> KaIdleWorker]
    /\ kaResult = [i \in IntentNames |-> KaNoResult]
    /\ kaSynced = [i \in IntentNames |-> TRUE]
    /\ pods = NoPods
    /\ NoWebhook /\ NoNaming
    /\ pl = [i \in IntentNames |-> PlIdleWorker]

\* the steps of the reconcile of a Terminating intent
FinalizationStep(i) ==
    \/ Reconcile(i)
    \/ ListReferences(i)
    \/ RemoveGet(i)
    \/ RemoveDelete(i)
    \/ RemoveFinalizer(i)

\* the user may still edit the object that is being deleted
FinalizationNext ==
    \/ \E i \in FinalizationClients, spec \in Specs : EditIntent(i, spec)
    \/ \E i \in FinalizationClients : FinalizationStep(i)

\* a step in which a store call fails and the reconcile returns the error
StoreCallFails ==
    \E i \in FinalizationClients :
        FinalizationStep(i) /\ np'[i].pc = "idle" /\ npResult'[i].err # "nil"

\* A queued key is reconciled, a reconcile that returned an error or asked for
\* a retry is queued again, and store calls fail only finitely often.
SpecFinalization ==
    /\ InitFinalization
    /\ [][FinalizationNext]_vars
    /\ \A i \in FinalizationClients : WF_vars(FinalizationStep(i))
    /\ <>[][~StoreCallFails]_vars

\* C39: the finalization of a Terminating intent that holds the finalizer
\* makes progress: every reconcile that was started returns, and the finalizer
\* is eventually cleared, so that the object goes.
C39_FinalizationProgress ==
    \A i \in FinalizationClients :
        /\ (np[i].pc # "idle") ~> (np[i].pc = "idle")
        /\ <>(intents[i] = NoIntent)

\* every reconcile that was started returns
ReconcileReturns ==
    \A i \in FinalizationClients : (np[i].pc # "idle") ~> (np[i].pc = "idle")

\* the finalizer is eventually cleared unless the Spec of the object is nil in
\* the end
ClearedUnlessNilSpec ==
    \A i \in FinalizationClients :
        <>(intents[i] = NoIntent \/ [](intents[i] # NoIntent /\ intents[i].spec.nil))

====
